---- MODULE Spec2Model ----
(***************************************************************************)
(* A model of the TownSpot Raycast extension: the event filter engine and  *)
(* day grouper (src/src/lib/event-listing.ts), the town resolver           *)
(* (src/src/lib/location-context.ts) and the query effect of the ask       *)
(* command (src/src/ask.tsx).                                              *)
(*                                                                         *)
(* Instants are milliseconds counted from the model epoch, Monday          *)
(* 2026-03-23T00:00:00Z, so that every instant of the model fits TLC's     *)
(* integers.  A date key "YYYY-MM-DD" is modelled by the number of the     *)
(* local calendar day counted from the same Monday.                        *)
(***************************************************************************)
EXTENDS Integers, Sequences, FiniteSets, TLC

VARIABLES
    evEvents,       \* the events handed to the event-listing functions
    evTz,           \* the timezone argument
    evNow,          \* the clock when the call starts (new Date())
    evNowUpcoming,  \* the clock when keepUpcomingEvents reads it (Date.now())
    evPc,           \* "input" | "filtered" | "grouped" | "live"
    evWindow,       \* the timeWindow argument of the last filter call
    evAllowed,      \* allowedDateKeys of the last filter call
    evResult,       \* the list returned by filterEventsByTimeWindow
    evSections,     \* the sections returned by groupEventsByDay
    evLive,         \* isEventLiveNow of each input event at evNow
    evThrew,        \* TRUE when the call ended in an exception
    nzZones,        \* the zone records handed to findNearestZone
    nzIp,           \* the IP location handed to findNearestZone
    nzPc,           \* "input" | "done"
    nzResult,       \* what findNearestZone returned
    nzThrew,        \* TRUE when findNearestZone ended in a TypeError
    rsInput,        \* the input of resolveTownContext
    rsPc,           \* "start" | "ip" | "match" | "list" | "done" | "rejected"
    rsCalls,        \* the endpoints requested so far, in order
    rsIpReply,      \* what the IP geolocation service answered
    rsIp,           \* ipLocation, the result of fetchIpLocation
    rsUrlIndex,     \* the zone-list URL being waited for
    rsResult,       \* the TownContext returned
    akQuery,        \* queryForApi of the ask command
    akTown,         \* effectiveTownSlug
    akHydrated,     \* selectionHydrated
    akPrefs,        \* preferences.apiBaseUrl and preferences.locale
    akRequests,     \* the askTownspot calls issued, in order, each with the
                    \* cancelled flag of the effect run that issued it
    akLoading,      \* loading
    akResponse,     \* response
    akCache,        \* cachedResponsesByTown
    akLoaded,       \* hasLoadedTownData
    akError,        \* errorMessage
    tgTags,         \* the tags handed to splitEventTags
    tgPc,           \* "input" or "split"
    tgResult,       \* the EventTagParts returned
    slInput,        \* the argument of sanitizeTownSlug
    slPc,           \* "input", "done" or "sent"
    slOutput,       \* the slug returned
    zfBaseUrl,      \* the apiBaseUrl argument of fetchActiveZones
    zfPc,           \* "start", "wait", "done" or "rejected"
    zfCalls,        \* the endpoints requested so far, in order
    zfReplies,      \* the answers received so far, in order
    zfLastStatus,   \* lastStatus
    zfResult,       \* the ActiveZoneOption list returned
    zfError,        \* the message of the error thrown
    aqPayload,      \* the AskPayload handed to askTownspot
    aqPc,           \* "start", "wait", "done" or "rejected"
    aqCalls,        \* the requests issued so far, in order
    aqReplies,      \* the answers received so far, in order
    aqLastError,    \* the message of lastError, <<>> while undefined
    aqResult,       \* the status of the response whose body was returned
    aqError,        \* the message of the error thrown
    ssSearchText,   \* searchText, the text shown in the search bar
    ssDebounced,    \* debouncedSearchText
    ssTimer,        \* the pending timeout of useDebouncedValue
    ssRawAge,       \* how long searchText has had its value, in ms, up to the wait
    ssSelectedTimeWindow,\* selectedTimeWindow
    ssManualTimeWindowQuery,\* manualTimeWindowQuery
    ssSelectedCategory,\* selectedCategory
    ssManualCategoryQuery,\* manualCategoryQuery
    ssCategoryOptions,\* categoryOptions
    ssQueryForApi,  \* queryForApi
    ssPickedWindow, \* the window the user picked for the text still shown
    ssPickedCategory, \* the category the user picked for the text still shown
    ssCancelled,    \* the text of the timeout that the last change of searchText cleared
    iqText,         \* the search text given to the query functions
    iqWindow,       \* the selected time window given to queryForApi
    iqInferred,     \* the result of inferTimeWindowFromQuery, once called
    iqCategory,     \* the result of inferCategoryFromQuery, once called
    iqSent,         \* the query of the request body, once built
    hzStorage,      \* LocalStorage item townspot-home-zone-id: {} or the id stored
    hzHomeZoneLoading,\* homeZoneLoading
    hzZonesLoading, \* zonesLoading
    hzZones,        \* the ids of zones
    hzZonesFailed,  \* zonesError is not empty
    hzHomeZoneId,   \* homeZoneId: {} for null
    hzSelected,     \* the zone id of selectedTownValue: {} for NO_ZONE_VALUE
    hzQueryTown,    \* the town of the last run of the query effect: {} for none
    hzQueriesSent,  \* askTownspot calls made since the launch
    hzLaunchStorage,\* what the storage held at the launch
    hzChosen,       \* the user has chosen a hometown since the launch
    rtEvent,        \* the event given to relativeStartTag
    rtNow,          \* nowMs
    rtPc,           \* "input" or "tagged"
    rtTag,          \* the tag returned
    tmStage,        \* the call resolveTownContext awaits: "start", "ip", "match", "list", "done"
    tmUrlIndex,     \* the zone-list URL being tried, 0 before
    tmPhase,        \* "headers" while fetch is pending, "body" while response.json() is, else "none"
    tmTimer,        \* the timeout of withTimeout
    tmAborted,      \* the calls that controller.abort() has ended
    tmSource,       \* the source of the TownContext returned, "none" before
    tmResolvingTown, \* resolvingTown of the ask command
    fxDebounced,    \* debouncedSearchText
    fxNormalizedQuery,\* normalizedQuery, the memo of normalizeWindowQuery(debouncedSearchText)
    fxInferredWindow,\* what inferTimeWindowFromQuery gives for debouncedSearchText
    fxInferredCategory,\* what inferCategoryFromQuery gives for debouncedSearchText
    fxSelectedTimeWindow,\* selectedTimeWindow
    fxManualTimeWindowQuery,\* manualTimeWindowQuery
    fxSelectedCategory,\* selectedCategory
    fxManualCategoryQuery,\* manualCategoryQuery
    fxCategoryOptions \* categoryOptions

evVars == <<evEvents, evTz, evNow, evNowUpcoming, evPc, evWindow, evAllowed,
            evResult, evSections, evLive, evThrew>>

nzVars == <<nzZones, nzIp, nzPc, nzResult, nzThrew>>

rsVars == <<rsInput, rsPc, rsCalls, rsIpReply, rsIp, rsUrlIndex, rsResult>>

akVars == <<akQuery, akTown, akHydrated, akPrefs, akRequests, akLoading, akResponse,
            akCache, akLoaded, akError>>

tgVars == <<tgTags, tgPc, tgResult>>

slVars == <<slInput, slPc, slOutput>>

zfVars == <<zfBaseUrl, zfPc, zfCalls, zfReplies, zfLastStatus, zfResult, zfError>>

aqVars == <<aqPayload, aqPc, aqCalls, aqReplies, aqLastError, aqResult, aqError>>

ssVars == <<ssSearchText, ssDebounced, ssTimer, ssRawAge, ssSelectedTimeWindow,
           ssManualTimeWindowQuery, ssSelectedCategory, ssManualCategoryQuery,
           ssCategoryOptions, ssQueryForApi, ssPickedWindow, ssPickedCategory,
           ssCancelled>>

iqVars == <<iqText, iqWindow, iqInferred, iqCategory, iqSent>>

hzVars == <<hzStorage, hzHomeZoneLoading, hzZonesLoading, hzZones, hzZonesFailed, hzHomeZoneId, hzSelected, hzQueryTown, hzQueriesSent, hzLaunchStorage, hzChosen>>

rtVars == <<rtEvent, rtNow, rtPc, rtTag>>

tmVars == <<tmStage, tmUrlIndex, tmPhase, tmTimer, tmAborted, tmSource, tmResolvingTown>>

fxVars == <<fxDebounced, fxNormalizedQuery, fxInferredWindow, fxInferredCategory, fxSelectedTimeWindow, fxManualTimeWindowQuery, fxSelectedCategory, fxManualCategoryQuery, fxCategoryOptions>>

vars == <<evVars, nzVars, rsVars, akVars, tgVars, slVars, zfVars, aqVars, ssVars, iqVars, hzVars, rtVars, tmVars, fxVars>>

\* What each component leaves alone.
evOthers == <<nzVars, rsVars, akVars, tgVars, slVars, zfVars, aqVars, ssVars, iqVars, hzVars, rtVars, tmVars, fxVars>>
nzOthers == <<evVars, rsVars, akVars, tgVars, slVars, zfVars, aqVars, ssVars, iqVars, hzVars, rtVars, tmVars, fxVars>>
rsOthers == <<evVars, nzVars, akVars, tgVars, slVars, zfVars, aqVars, ssVars, iqVars, hzVars, rtVars, tmVars, fxVars>>
akOthers == <<evVars, nzVars, rsVars, tgVars, slVars, zfVars, aqVars, ssVars, iqVars, hzVars, rtVars, tmVars, fxVars>>
tgOthers == <<evVars, nzVars, rsVars, akVars, slVars, zfVars, aqVars, ssVars, iqVars, hzVars, rtVars, tmVars, fxVars>>
slOthers == <<evVars, nzVars, rsVars, akVars, tgVars, zfVars, aqVars, ssVars, iqVars, hzVars, rtVars, tmVars, fxVars>>
zfOthers == <<evVars, nzVars, rsVars, akVars, tgVars, slVars, aqVars, ssVars, iqVars, hzVars, rtVars, tmVars, fxVars>>
aqOthers == <<evVars, nzVars, rsVars, akVars, tgVars, slVars, zfVars, ssVars, iqVars, hzVars, rtVars, tmVars, fxVars>>
ssOthers == <<evVars, nzVars, rsVars, akVars, tgVars, slVars, zfVars, aqVars, iqVars, hzVars, rtVars, tmVars, fxVars>>
iqOthers == <<evVars, nzVars, rsVars, akVars, tgVars, slVars, zfVars, aqVars, ssVars, hzVars, rtVars, tmVars, fxVars>>
hzOthers == <<evVars, nzVars, rsVars, akVars, tgVars, slVars, zfVars, aqVars, ssVars, iqVars, rtVars, tmVars, fxVars>>
rtOthers == <<evVars, nzVars, rsVars, akVars, tgVars, slVars, zfVars, aqVars, ssVars, iqVars, hzVars, tmVars, fxVars>>
tmOthers == <<evVars, nzVars, rsVars, akVars, tgVars, slVars, zfVars, aqVars, ssVars, iqVars, hzVars, rtVars, fxVars>>
fxOthers == <<evVars, nzVars, rsVars, akVars, tgVars, slVars, zfVars, aqVars, ssVars, iqVars, hzVars, rtVars, tmVars>>

\* The value of each group of variables while another component runs.
EvIdle ==
    /\ evEvents = <<>>
    /\ evTz = ""
    /\ evNow = 0
    /\ evNowUpcoming = 0
    /\ evPc = "idle"
    /\ evWindow = "none"
    /\ evAllowed = {}
    /\ evResult = <<>>
    /\ evSections = <<>>
    /\ evLive = <<>>
    /\ evThrew = FALSE

NzIdle ==
    /\ nzZones = <<>>
    /\ nzIp = [lat |-> 0, lng |-> 0, countryCode |-> <<>>]
    /\ nzPc = "idle"
    /\ nzResult = [found |-> FALSE, slug |-> <<>>, name |-> <<>>]
    /\ nzThrew = FALSE

RsIdle ==
    /\ rsInput = [argumentTownSlug |-> <<>>, defaultTownSlug |-> <<>>, apiBaseUrl |-> <<>>]
    /\ rsPc = "idle"
    /\ rsCalls = <<>>
    /\ rsIpReply = [kind |-> "none"]
    /\ rsIp = [ok |-> FALSE, lat |-> 0, lng |-> 0, countryCode |-> <<>>]
    /\ rsUrlIndex = 0
    /\ rsResult = [slug |-> <<>>, name |-> <<>>, source |-> "none"]

TgIdle ==
    /\ tgTags = <<>>
    /\ tgPc = "idle"
    /\ tgResult = [categories |-> <<>>, frequency |-> <<>>, price |-> <<>>]

SlIdle ==
    /\ slInput = [given |-> FALSE, chars |-> <<>>]
    /\ slPc = "idle"
    /\ slOutput = <<>>

ZfIdle ==
    /\ zfBaseUrl = <<>>
    /\ zfPc = "idle"
    /\ zfCalls = <<>>
    /\ zfReplies = <<>>
    /\ zfLastStatus = 0
    /\ zfResult = <<>>
    /\ zfError = <<>>

AqIdle ==
    /\ aqPayload = [query |-> <<>>, townSlug |-> <<>>, locale |-> <<>>, limit |-> 0, apiBaseUrl |-> <<>>]
    /\ aqPc = "idle"
    /\ aqCalls = <<>>
    /\ aqReplies = <<>>
    /\ aqLastError = <<>>
    /\ aqResult = 0
    /\ aqError = <<>>

SsIdle ==
    /\ ssSearchText = <<>>
    /\ ssDebounced = <<>>
    /\ ssTimer = [armed |-> FALSE, value |-> <<>>, remaining |-> 0]
    /\ ssRawAge = 0
    /\ ssSelectedTimeWindow = "none"
    /\ ssManualTimeWindowQuery = <<>>
    /\ ssSelectedCategory = "none"
    /\ ssManualCategoryQuery = <<>>
    /\ ssCategoryOptions = {}
    /\ ssQueryForApi = <<>>
    /\ ssPickedWindow = [set |-> FALSE, text |-> <<>>, value |-> "none"]
    /\ ssPickedCategory = [set |-> FALSE, text |-> <<>>, value |-> "none"]
    /\ ssCancelled = [set |-> FALSE, value |-> <<>>]

IqIdle ==
    /\ iqText = <<>>
    /\ iqWindow = "none"
    /\ iqInferred = "none"
    /\ iqCategory = "none"
    /\ iqSent = [built |-> FALSE, query |-> <<>>]

HzIdle ==
    /\ hzStorage = {}
    /\ hzHomeZoneLoading = TRUE
    /\ hzZonesLoading = TRUE
    /\ hzZones = {}
    /\ hzZonesFailed = FALSE
    /\ hzHomeZoneId = {}
    /\ hzSelected = {}
    /\ hzQueryTown = {}
    /\ hzQueriesSent = 0
    /\ hzLaunchStorage = {}
    /\ hzChosen = FALSE

RtIdle ==
    /\ rtEvent = [id |-> "none", startTime |-> [kind |-> "null", ms |-> 0], endTime |-> [kind |-> "null", ms |-> 0]]
    /\ rtNow = 0
    /\ rtPc = "idle"
    /\ rtTag = [kind |-> "null", minutes |-> 0]

TmIdle ==
    /\ tmStage = "idle"
    /\ tmUrlIndex = 0
    /\ tmPhase = "none"
    /\ tmTimer = [armed |-> FALSE, remaining |-> 0]
    /\ tmAborted = 0
    /\ tmSource = "none"
    /\ tmResolvingTown = FALSE

FxIdle ==
    /\ fxDebounced = <<>>
    /\ fxNormalizedQuery = <<>>
    /\ fxInferredWindow = "null"
    /\ fxInferredCategory = "null"
    /\ fxSelectedTimeWindow = "idle"
    /\ fxManualTimeWindowQuery = <<>>
    /\ fxSelectedCategory = "idle"
    /\ fxManualCategoryQuery = <<>>
    /\ fxCategoryOptions = {}

TownSlugs == {"a", "b"}

\* A RaycastResponse: the slug of its town ("" when the payload has none) and
\* the request that it answers; NoResponse stands for null.
Response(townSlug, request) == [townSlug |-> townSlug, request |-> request]
NoResponse == [townSlug |-> "", request |-> 0]

\* The ask command after its first render: no town, nothing loaded.
AkStart ==
    /\ akQuery = "what's on today and tomorrow"
    /\ akTown = ""
    /\ akHydrated = FALSE
    /\ akPrefs = "p1"
    /\ akRequests = <<>>
    /\ akLoading = FALSE
    /\ akResponse = NoResponse
    /\ akCache = [t \in TownSlugs |-> NoResponse]
    /\ akLoaded = [t \in TownSlugs |-> FALSE]
    /\ akError = ""

----------------------------------------------------------------------------
(* Bounds of the model *)

MaxEvents == 2
LastNowDay == 6
MaxZones == 3
MaxRequests == 3

----------------------------------------------------------------------------
(* Time *)

MinuteMs == 60 * 1000
HourMs == 60 * MinuteMs
DayMs == 24 * HourMs

NaN == -1

DEFAULT_EVENT_DURATION_MS == 2 * 60 * 60 * 1000

DEFAULT_TIMEZONE == "Europe/London"

TimeWindows == {"now", "all_upcoming", "today", "today_tomorrow",
                "next_3_days", "next_7_days", "this_week"}

\* A time string of an event: an ISO-8601 string naming the instant ms, a
\* string that is no date, the empty string, or null / undefined.
IsoTime(ms) == [kind |-> "iso", ms |-> ms]
InvalidTime == [kind |-> "invalid", ms |-> 0]
EmptyTime == [kind |-> "empty", ms |-> 0]
NullTime == [kind |-> "null", ms |-> 0]

\* Date.parse(value || ""): the instant of an ISO string, NaN for anything else.
DateParse(value) == IF value.kind = "iso" THEN value.ms ELSE NaN

IsNaN(n) == n = NaN

\* The timezones Intl.DateTimeFormat accepts; any other name is a RangeError.
ValidTimezones == {"UTC", "Europe/London"}

\* Europe/London leaves GMT for BST on Sunday 2026-03-29 at 01:00 UTC.
LondonDstStartMs == 6 * DayMs + HourMs

\* The UTC offset of a timezone at an instant.
TzOffsetMs(tz, ms) ==
    IF tz = "Europe/London" /\ ms >= LondonDstStartMs THEN HourMs ELSE 0

EffectiveTimezone(timezone) == IF timezone = "" THEN DEFAULT_TIMEZONE ELSE timezone

TimezoneThrows(timezone) == EffectiveTimezone(timezone) \notin ValidTimezones

\* formatDateKey: the calendar date of the instant in the timezone.
formatDateKey(ms, timezone) ==
    LET tz == EffectiveTimezone(timezone)
    IN (ms + TzOffsetMs(tz, ms)) \div DayMs

\* weekdayInTimezone: Monday = 1 ... Sunday = 7 (the model epoch is a Monday).
weekdayInTimezone(ms, timezone) == (formatDateKey(ms, timezone) % 7) + 1

\* dateKeyForOffset: setUTCDate(getUTCDate() + offsetDays), then formatDateKey.
dateKeyForOffset(base, timezone, offsetDays) ==
    formatDateKey(base + offsetDays * DayMs, timezone)

----------------------------------------------------------------------------
(* Event windows *)

\* getEventWindowMs: NullWindow stands for the null it returns.
NullWindow == [ok |-> FALSE, startMs |-> 0, endMs |-> 0]

getEventWindowMs(event) ==
    LET startMs == DateParse(event.startTime)
        parsedEndMs == DateParse(event.endTime)
    IN IF IsNaN(startMs) THEN NullWindow
       ELSE [ok |-> TRUE,
             startMs |-> startMs,
             endMs |-> IF IsNaN(parsedEndMs) \/ parsedEndMs <= startMs
                       THEN startMs + DEFAULT_EVENT_DURATION_MS
                       ELSE parsedEndMs]

\* isEventLiveNow with the end of the window included.
isEventLiveNow_InclusiveEnd(event, nowMs) ==
    LET window == getEventWindowMs(event)
    IN IF ~window.ok THEN FALSE
       ELSE nowMs >= window.startMs /\ nowMs <= window.endMs

isEventLiveNow(event, nowMs) ==
    LET window == getEventWindowMs(event)
    IN IF ~window.ok THEN FALSE
       ELSE nowMs >= window.startMs /\ nowMs < window.endMs

\* keepUpcomingEvents keeping only the events that have not started yet.
keepUpcomingEvents_FutureStarts(events, nowMs) ==
    LET Keep(event) ==
            LET window == getEventWindowMs(event)
            IN IF ~window.ok THEN FALSE ELSE window.startMs > nowMs
    IN SelectSeq(events, Keep)

\* keepUpcomingEvents keeping the events that have no window.
keepUpcomingEvents_KeepUnparseable(events, nowMs) ==
    LET Keep(event) ==
            LET window == getEventWindowMs(event)
            IN IF ~window.ok THEN TRUE ELSE window.endMs > nowMs
    IN SelectSeq(events, Keep)

keepUpcomingEvents(events, nowMs) ==
    LET Keep(event) ==
            LET window == getEventWindowMs(event)
            IN IF ~window.ok THEN FALSE ELSE window.endMs > nowMs
    IN SelectSeq(events, Keep)

\* allowedDateKeys with the week running through the Monday after.
allowedDateKeys_WeekThroughMonday(now, timezone, timeWindow) ==
    IF timeWindow = "today" THEN {formatDateKey(now, timezone)}
    ELSE IF timeWindow = "today_tomorrow"
    THEN {formatDateKey(now, timezone), dateKeyForOffset(now, timezone, 1)}
    ELSE IF timeWindow = "next_3_days"
    THEN {dateKeyForOffset(now, timezone, offset) : offset \in 0..2}
    ELSE IF timeWindow = "next_7_days"
    THEN {dateKeyForOffset(now, timezone, offset) : offset \in 0..6}
    ELSE LET weekday == weekdayInTimezone(now, timezone)
         IN {dateKeyForOffset(now, timezone, offset) : offset \in 0..(8 - weekday)}

\* allowedDateKeys as filterEventsByTimeWindow builds it for a date window.
allowedDateKeys(now, timezone, timeWindow) ==
    IF timeWindow = "today" THEN {formatDateKey(now, timezone)}
    ELSE IF timeWindow = "today_tomorrow"
    THEN {formatDateKey(now, timezone), dateKeyForOffset(now, timezone, 1)}
    ELSE IF timeWindow = "next_3_days"
    THEN {dateKeyForOffset(now, timezone, offset) : offset \in 0..2}
    ELSE IF timeWindow = "next_7_days"
    THEN {dateKeyForOffset(now, timezone, offset) : offset \in 0..6}
    ELSE LET weekday == weekdayInTimezone(now, timezone)
             daysUntilSunday == IF 7 - weekday > 0 THEN 7 - weekday ELSE 0
         IN {dateKeyForOffset(now, timezone, offset) : offset \in 0..daysUntilSunday}

\* filterEventsByTimeWindow answering window "now" with the upcoming events.
filterEventsByTimeWindow_NowAsUpcoming(events, timezone, timeWindow, now, nowUpcoming) ==
    IF timeWindow \in {"now", "all_upcoming"}
    THEN keepUpcomingEvents(events, nowUpcoming)
    ELSE LET allowed == allowedDateKeys(now, timezone, timeWindow)
             InWindow(event) ==
                 LET parsed == DateParse(event.startTime)
                 IN IF IsNaN(parsed) THEN FALSE
                    ELSE formatDateKey(parsed, timezone) \in allowed
         IN SelectSeq(keepUpcomingEvents(events, nowUpcoming), InWindow)

\* filterEventsByTimeWindow, for a timezone Intl accepts.  now is the clock at
\* entry, nowUpcoming the clock when keepUpcomingEvents reads it.
filterEventsByTimeWindow(events, timezone, timeWindow, now, nowUpcoming) ==
    IF timeWindow = "now"
    THEN LET Live(event) == isEventLiveNow(event, now)
         IN SelectSeq(events, Live)
    ELSE IF timeWindow = "all_upcoming"
    THEN keepUpcomingEvents(events, nowUpcoming)
    ELSE LET allowed == allowedDateKeys(now, timezone, timeWindow)
             InWindow(event) ==
                 LET parsed == DateParse(event.startTime)
                 IN IF IsNaN(parsed) THEN FALSE
                    ELSE formatDateKey(parsed, timezone) \in allowed
         IN SelectSeq(keepUpcomingEvents(events, nowUpcoming), InWindow)

\* Whether the call reaches a formatDateKey, which throws on a bad timezone.
filterUsesTimezone(timeWindow) == timeWindow \notin {"now", "all_upcoming"}

----------------------------------------------------------------------------
(* Day grouping *)

\* The comparator of sortEvents: negative, zero or positive.
compareEvents(a, b) ==
    LET aTime == DateParse(a.startTime)
        bTime == DateParse(b.startTime)
    IN IF IsNaN(aTime) /\ IsNaN(bTime) THEN 0
       ELSE IF IsNaN(aTime) THEN 1
       ELSE IF IsNaN(bTime) THEN 0 - 1
       ELSE aTime - bTime

\* Insert event behind every element it does not precede (a stable sort).
RECURSIVE insertSorted(_, _)
insertSorted(sorted, event) ==
    IF sorted = <<>> THEN <<event>>
    ELSE IF compareEvents(event, Head(sorted)) < 0 THEN <<event>> \o sorted
    ELSE <<Head(sorted)>> \o insertSorted(Tail(sorted), event)

\* sortEvents: [...events].sort(comparator); Array.prototype.sort is stable.
RECURSIVE sortEvents(_)
sortEvents(events) ==
    IF events = <<>> THEN <<>>
    ELSE insertSorted(sortEvents(SubSeq(events, 1, Len(events) - 1)),
                      events[Len(events)])

\* grouped.get(key).events.push(event), the section made on first sight of key.
RECURSIVE pushToSection(_, _, _, _)
pushToSection(sections, key, title, event) ==
    IF sections = <<>> THEN <<[id |-> key, title |-> title, events |-> <<event>>]>>
    ELSE IF Head(sections).id = key
    THEN <<[Head(sections) EXCEPT !.events = Append(@, event)]>> \o Tail(sections)
    ELSE <<Head(sections)>> \o pushToSection(Tail(sections), key, title, event)

RECURSIVE groupLoop(_, _, _, _, _)
groupLoop(sortedEvents, timezone, todayKey, tomorrowKey, sections) ==
    IF sortedEvents = <<>> THEN sections
    ELSE LET event == Head(sortedEvents)
             parsed == DateParse(event.startTime)
         IN IF IsNaN(parsed)
            THEN groupLoop(Tail(sortedEvents), timezone, todayKey, tomorrowKey, sections)
            ELSE LET key == formatDateKey(parsed, timezone)
                     title == IF key = todayKey THEN "Today"
                              ELSE IF key = tomorrowKey THEN "Tomorrow"
                              ELSE "dayLabel"
                 IN groupLoop(Tail(sortedEvents), timezone, todayKey, tomorrowKey,
                              pushToSection(sections, key, title, event))

\* groupEventsByDay that groups the events in the order they were given.
groupEventsByDay_InputOrder(events, timezone, now) ==
    groupLoop(events, timezone,
              formatDateKey(now, timezone),
              formatDateKey(now + DayMs, timezone),
              <<>>)

\* groupEventsByDay with the date keys of the events taken in UTC.
groupEventsByDay_UtcKeys(events, timezone, now) ==
    groupLoop(sortEvents(events), "UTC",
              formatDateKey(now, timezone),
              formatDateKey(now + DayMs, timezone),
              <<>>)

\* groupEventsByDay, for a timezone Intl accepts.
groupEventsByDay(events, timezone, now) ==
    groupLoop(sortEvents(events), timezone,
              formatDateKey(now, timezone),
              formatDateKey(now + DayMs, timezone),
              <<>>)

----------------------------------------------------------------------------
(* Strings: a string is the sequence of its characters *)

UppercaseLetters == <<"A", "B", "C", "D", "E", "F", "G", "H", "I", "J", "K", "L", "M",
                      "N", "O", "P", "Q", "R", "S", "T", "U", "V", "W", "X", "Y", "Z">>
LowercaseLetters == <<"a", "b", "c", "d", "e", "f", "g", "h", "i", "j", "k", "l", "m",
                      "n", "o", "p", "q", "r", "s", "t", "u", "v", "w", "x", "y", "z">>
Digits == {"0", "1", "2", "3", "4", "5", "6", "7", "8", "9"}

IndexIn(c, letters) == CHOOSE i \in 1..Len(letters) : letters[i] = c
IsIn(c, letters) == \E i \in 1..Len(letters) : letters[i] = c

LowerOf(c) == IF IsIn(c, UppercaseLetters)
              THEN LowercaseLetters[IndexIn(c, UppercaseLetters)]
              ELSE c
UpperOf(c) == IF IsIn(c, LowercaseLetters)
              THEN UppercaseLetters[IndexIn(c, LowercaseLetters)]
              ELSE c

\* The characters \s matches and trim() removes.
IsWhitespace(c) == c \in {" ", "\t"}

toLowerCase(s) == [i \in 1..Len(s) |-> LowerOf(s[i])]

RECURSIVE trimStart(_)
trimStart(s) ==
    IF s # <<>> /\ IsWhitespace(Head(s)) THEN trimStart(Tail(s)) ELSE s

RECURSIVE trimEnd(_)
trimEnd(s) ==
    IF s # <<>> /\ IsWhitespace(s[Len(s)])
    THEN trimEnd(SubSeq(s, 1, Len(s) - 1))
    ELSE s

trim(s) == trimEnd(trimStart(s))

\* replace(/\s+/g, "-"): every run of whitespace becomes one hyphen.
RECURSIVE replaceWhitespaceRuns(_)
replaceWhitespaceRuns(s) ==
    IF s = <<>> THEN <<>>
    ELSE IF IsWhitespace(Head(s))
    THEN <<"-">> \o replaceWhitespaceRuns(trimStart(s))
    ELSE <<Head(s)>> \o replaceWhitespaceRuns(Tail(s))

IsSlugChar(c) == IsIn(c, LowercaseLetters) \/ c \in Digits \/ c = "-"

\* replace(/[^a-z0-9-]/g, "")
removeNonSlugChars(s) == SelectSeq(s, IsSlugChar)

RECURSIVE dropHyphens(_)
dropHyphens(s) == IF s # <<>> /\ Head(s) = "-" THEN dropHyphens(Tail(s)) ELSE s

\* replace(/-+/g, "-"): every run of hyphens becomes one hyphen.
RECURSIVE collapseHyphens(_)
collapseHyphens(s) ==
    IF s = <<>> THEN <<>>
    ELSE IF Head(s) = "-"
    THEN <<"-">> \o collapseHyphens(dropHyphens(s))
    ELSE <<Head(s)>> \o collapseHyphens(Tail(s))

\* sanitizeTownSlug that collapses the hyphen runs before it removes the
\* characters outside [a-z0-9-].
sanitizeTownSlug_CollapseFirst(townSlug) ==
    removeNonSlugChars(collapseHyphens(replaceWhitespaceRuns(trim(toLowerCase(townSlug)))))

\* sanitizeTownSlug that collapses the hyphen runs before it turns the
\* whitespace into hyphens.
sanitizeTownSlug_HyphensBeforeSpaces(townSlug) ==
    removeNonSlugChars(replaceWhitespaceRuns(collapseHyphens(trim(toLowerCase(townSlug)))))

sanitizeTownSlug(townSlug) ==
    collapseHyphens(removeNonSlugChars(replaceWhitespaceRuns(trim(toLowerCase(townSlug)))))

\* toTownName: the parts between hyphens, capitalised and joined by spaces.
RECURSIVE toTownNameFrom(_, _)
toTownNameFrom(s, atPartStart) ==
    LET rest == dropHyphens(s)
    IN IF rest = <<>> THEN <<>>
       ELSE IF s # rest
       THEN <<" ">> \o toTownNameFrom(rest, TRUE)
       ELSE <<IF atPartStart THEN UpperOf(Head(s)) ELSE Head(s)>>
            \o toTownNameFrom(Tail(s), FALSE)

toTownName(slug) == toTownNameFrom(dropHyphens(slug), TRUE)

----------------------------------------------------------------------------
(* JSON values and numbers *)

\* A JSON value that may stand where a number is expected: a number, a string,
\* null, or nothing (the property is absent).
JsonNumber(n) == [t |-> "number", n |-> n, s |-> <<>>]
JsonString(s) == [t |-> "string", n |-> 0, s |-> s]
JsonNull == [t |-> "null", n |-> 0, s |-> <<>>]
JsonUndefined == [t |-> "undefined", n |-> 0, s |-> <<>>]

\* The result of toNumber: a finite number, or the null it returns.
NumberOk(n) == [ok |-> TRUE, n |-> n]
NullNumber == [ok |-> FALSE, n |-> 0]

\* The decimal value of a string of digits.
RECURSIVE digitsValue(_)
digitsValue(s) ==
    IF s = <<>> THEN 0
    ELSE 10 * digitsValue(SubSeq(s, 1, Len(s) - 1))
         + (CHOOSE d \in 0..9 : ToString(d) = s[Len(s)])

\* Number(string): whitespace is trimmed, the empty string is 0, a string of
\* digits is its value, any other string of the model is NaN.
numberOfString(s) ==
    LET t == trim(s)
    IN IF t = <<>> THEN NumberOk(0)
       ELSE IF \A i \in 1..Len(t) : t[i] \in Digits THEN NumberOk(digitsValue(t))
       ELSE NullNumber

\* toNumber: typeof value === "number" ? value : Number(value), null unless
\* finite.  Number(null) is 0 and Number(undefined) is NaN.
toNumber(value) ==
    IF value.t = "number" THEN NumberOk(value.n)
    ELSE IF value.t = "string" THEN numberOfString(value.s)
    ELSE IF value.t = "null" THEN NumberOk(0)
    ELSE NullNumber

----------------------------------------------------------------------------
(* Nearest zone *)

Abs(n) == IF n < 0 THEN 0 - n ELSE n

\* haversineKm with Earth radius 6371 km, in metres, tabulated from the source
\* formula for the latitudes {0, 10} and the longitude differences of the
\* model: <<lat1, lat2, |lng2 - lng1|>> -> metres.
HaversineTable ==
    <<0, 0, 0>> :> 0 @@ <<0, 0, 1>> :> 111195 @@ <<0, 0, 2>> :> 222390 @@
    <<0, 0, 8>> :> 889559 @@ <<0, 0, 9>> :> 1000754 @@ <<0, 0, 10>> :> 1111949 @@
    <<0, 10, 0>> :> 1111949 @@ <<0, 10, 1>> :> 1117439 @@ <<0, 10, 2>> :> 1133748 @@
    <<0, 10, 8>> :> 1421156 @@ <<0, 10, 9>> :> 1492559 @@ <<0, 10, 10>> :> 1568521 @@
    <<10, 0, 0>> :> 1111949 @@ <<10, 0, 1>> :> 1117439 @@ <<10, 0, 2>> :> 1133748 @@
    <<10, 0, 8>> :> 1421156 @@ <<10, 0, 9>> :> 1492559 @@ <<10, 0, 10>> :> 1568521 @@
    <<10, 10, 0>> :> 0 @@ <<10, 10, 1>> :> 109506 @@ <<10, 10, 2>> :> 219011 @@
    <<10, 10, 8>> :> 876024 @@ <<10, 10, 9>> :> 985520 @@ <<10, 10, 10>> :> 1095014

haversineKm(lat1, lng1, lat2, lng2) == HaversineTable[<<lat1, lat2, Abs(lng2 - lng1)>>]

\* A record of the zone list.  hidden is TRUE for hidden: true; active is FALSE
\* for active: false; isNull marks a JSON null standing in the array.
ZoneRecord(slug, name, lat, lng, country_code, countryCode, active, hidden) ==
    [isNull |-> FALSE, slug |-> slug, name |-> name, lat |-> lat, lng |-> lng,
     country_code |-> country_code, countryCode |-> countryCode,
     active |-> active, hidden |-> hidden]

NullRecord ==
    [isNull |-> TRUE, slug |-> <<>>, name |-> <<>>, lat |-> JsonUndefined,
     lng |-> JsonUndefined, country_code |-> <<>>, countryCode |-> <<>>,
     active |-> TRUE, hidden |-> FALSE]

\* The { slug, name } | null that the zone lookups return.
Zone(slug, name) == [found |-> TRUE, slug |-> slug, name |-> name]
NoZone == [found |-> FALSE, slug |-> <<>>, name |-> <<>>]

\* The predicate of zones.filter in findNearestZone.
isCandidateZone(zone, preferredCountry) ==
    IF zone.hidden \/ ~zone.active THEN FALSE
    ELSE LET zoneSlug == sanitizeTownSlug(zone.slug)
             zoneName == trim(zone.name)
             zoneLat == toNumber(zone.lat)
             zoneLng == toNumber(zone.lng)
         IN IF zoneSlug = <<>> \/ zoneName = <<>> \/ ~zoneLat.ok \/ ~zoneLng.ok
            THEN FALSE
            ELSE IF preferredCountry = <<>> THEN TRUE
            ELSE LET zoneCountry ==
                         toLowerCase(trim(IF zone.country_code # <<>>
                                          THEN zone.country_code
                                          ELSE zone.countryCode))
                 IN zoneCountry = <<>> \/ zoneCountry = preferredCountry

NoBest == [found |-> FALSE, slug |-> <<>>, name |-> <<>>, distanceKm |-> 0]

\* The loop over the candidates: best changes on a strictly smaller distance.
RECURSIVE nearestLoop(_, _, _)
nearestLoop(candidates, ipLocation, best) ==
    IF candidates = <<>> THEN best
    ELSE LET zone == Head(candidates)
             zoneLat == toNumber(zone.lat)
             zoneLng == toNumber(zone.lng)
         IN IF ~zoneLat.ok \/ ~zoneLng.ok
            THEN nearestLoop(Tail(candidates), ipLocation, best)
            ELSE LET distanceKm == haversineKm(ipLocation.lat, ipLocation.lng,
                                               zoneLat.n, zoneLng.n)
                 IN nearestLoop(Tail(candidates), ipLocation,
                        IF ~best.found \/ distanceKm < best.distanceKm
                        THEN [found |-> TRUE,
                              slug |-> sanitizeTownSlug(zone.slug),
                              name |-> trim(zone.name),
                              distanceKm |-> distanceKm]
                        ELSE best)

\* The same loop with best changing on a smaller or equal distance.
RECURSIVE nearestLoop_LastTieWins(_, _, _)
nearestLoop_LastTieWins(candidates, ipLocation, best) ==
    IF candidates = <<>> THEN best
    ELSE LET zone == Head(candidates)
             zoneLat == toNumber(zone.lat)
             zoneLng == toNumber(zone.lng)
             distanceKm == haversineKm(ipLocation.lat, ipLocation.lng,
                                       zoneLat.n, zoneLng.n)
         IN nearestLoop_LastTieWins(Tail(candidates), ipLocation,
                IF ~best.found \/ distanceKm <= best.distanceKm
                THEN [found |-> TRUE,
                      slug |-> sanitizeTownSlug(zone.slug),
                      name |-> trim(zone.name),
                      distanceKm |-> distanceKm]
                ELSE best)

findNearestZone_LastTieWins(zones, ipLocation) ==
    LET IsCandidate(zone) == isCandidateZone(zone, ipLocation.countryCode)
        best == nearestLoop_LastTieWins(SelectSeq(zones, IsCandidate), ipLocation, NoBest)
    IN IF ~best.found THEN NoZone ELSE Zone(best.slug, best.name)

\* findNearestZone, for a list without a null entry.
findNearestZone(zones, ipLocation) ==
    LET IsCandidate(zone) == isCandidateZone(zone, ipLocation.countryCode)
        best == nearestLoop(SelectSeq(zones, IsCandidate), ipLocation, NoBest)
    IN IF ~best.found \/ best.slug = <<>> \/ best.name = <<>>
       THEN NoZone
       ELSE Zone(best.slug, best.name)

\* zone.hidden of a null entry is a TypeError, thrown by the filter callback.
findNearestZoneThrows(zones) == \E i \in 1..Len(zones) : zones[i].isNull

----------------------------------------------------------------------------
(* Town resolution *)

FALLBACK_TOWN_SLUG == <<"k", "e", "n", "t", "i", "s", "h", "-", "t", "o", "w", "n">>

IsLetter(c) == IsIn(c, LowercaseLetters) \/ IsIn(c, UppercaseLetters)

\* /^[a-z][a-z0-9+.-]*:\/\//i
hasUriScheme(value) ==
    \E k \in 1..Len(value) :
        /\ IsLetter(value[1])
        /\ \A i \in 2..k : IsLetter(value[i]) \/ value[i] \in Digits \/ value[i] \in {"+", ".", "-"}
        /\ k + 3 <= Len(value)
        /\ SubSeq(value, k + 1, k + 3) = <<":", "/", "/">>

\* normalizeApiBaseUrl that lets an empty value through.
normalizeApiBaseUrl_AcceptsEmpty(apiBaseUrl) ==
    LET value == trim(apiBaseUrl)
    IN IF ~hasUriScheme(value)
       THEN [throws |-> FALSE, url |-> <<"h", "t", "t", "p", ":", "/", "/">> \o value]
       ELSE [throws |-> FALSE, url |-> value]

\* normalizeApiBaseUrl: throws on an empty value, prepends http:// when the
\* value has no scheme.
normalizeApiBaseUrl(apiBaseUrl) ==
    LET value == trim(apiBaseUrl)
    IN IF value = <<>> THEN [throws |-> TRUE, url |-> <<>>]
       ELSE IF ~hasUriScheme(value)
       THEN [throws |-> FALSE, url |-> <<"h", "t", "t", "p", ":", "/", "/">> \o value]
       ELSE [throws |-> FALSE, url |-> value]

TownContext(slug, name, source) == [slug |-> slug, name |-> name, source |-> source]
NoContext == [slug |-> <<>>, name |-> <<>>, source |-> "none"]

\* ipLocation: IpLocation | null.
NoIpLocation == [ok |-> FALSE, lat |-> 0, lng |-> 0, countryCode |-> <<>>]

\* a ?? b
Coalesce(a, b) == IF a.t \in {"null", "undefined"} THEN b ELSE a

\* The answers of an external call that carry no usable body: the fetch
\* rejects (network error, or the abort of withTimeout), the status is not
\* 2xx, or the body is not JSON.
FailedReplyKinds == {"network", "timeout", "status", "badjson"}

IpReply(kind, latitude, lat, longitude, lon, country_code) ==
    [kind |-> kind, latitude |-> latitude, lat |-> lat, longitude |-> longitude,
     lon |-> lon, country_code |-> country_code]

\* fetchIpLocation, given the answer of https://ipapi.co/json/.
fetchIpLocation(reply) ==
    IF reply.kind # "ok" THEN NoIpLocation
    ELSE LET lat == toNumber(Coalesce(reply.latitude, reply.lat))
             lng == toNumber(Coalesce(reply.longitude, reply.lon))
             countryCode == toLowerCase(trim(reply.country_code))
         IN IF ~lat.ok \/ ~lng.ok THEN NoIpLocation
            ELSE [ok |-> TRUE, lat |-> lat.n, lng |-> lng.n, countryCode |-> countryCode]

\* The same without the test of the sanitized slug.
zoneFromMatchReply_KeepsEmptySlug(reply) ==
    IF reply.kind # "ok" THEN NoZone
    ELSE LET slug == sanitizeTownSlug(reply.slug)
         IN Zone(slug, IF trim(reply.name) # <<>> THEN trim(reply.name)
                       ELSE toTownName(slug))

\* fetchZoneFromCoordinates, given the answer of /places/match-zone: the zone
\* of the payload when its sanitized slug is not empty.
zoneFromMatchReply(reply) ==
    IF reply.kind # "ok" THEN NoZone
    ELSE LET slug == sanitizeTownSlug(reply.slug)
         IN IF slug = <<>> THEN NoZone
            ELSE Zone(slug, IF trim(reply.name) # <<>> THEN trim(reply.name)
                            ELSE toTownName(slug))

\* The URLs of fetchNearestZoneByDistance, in the order they are tried.
ZoneListUrls == <<"/locations/list?includeHidden=true", "/locations/list", "/list">>

IP_ENDPOINT == "https://ipapi.co/json/"
MATCH_ENDPOINT == "/places/match-zone"

\* The same steps with the preference looked at first.
resolveWithoutLookup_PreferenceFirst(input) ==
    LET fromArgument == sanitizeTownSlug(input.argumentTownSlug)
        fromPreference == sanitizeTownSlug(input.defaultTownSlug)
    IN IF fromPreference # <<>>
       THEN TownContext(fromPreference, toTownName(fromPreference), "preference")
       ELSE IF fromArgument # <<>>
       THEN TownContext(fromArgument, toTownName(fromArgument), "argument")
       ELSE NoContext

\* The first two steps of resolveTownContext: the argument, then the
\* preference; NoContext when neither is set.
resolveWithoutLookup(input) ==
    LET fromArgument == sanitizeTownSlug(input.argumentTownSlug)
        fromPreference == sanitizeTownSlug(input.defaultTownSlug)
    IN IF fromArgument # <<>>
       THEN TownContext(fromArgument, toTownName(fromArgument), "argument")
       ELSE IF fromPreference # <<>>
       THEN TownContext(fromPreference, toTownName(fromPreference), "preference")
       ELSE NoContext

FallbackContext == TownContext(FALLBACK_TOWN_SLUG, toTownName(FALLBACK_TOWN_SLUG), "fallback")

----------------------------------------------------------------------------
(* The inputs of the event-listing functions *)

Timezones == {"UTC", "Europe/London", "", "Mars/Olympus"}

\* Clock readings: mid-morning, noon and late on each day of the week
\* that ends with the change to summer time.
NowGrid ==
    {d * DayMs + t : d \in 0..LastNowDay,
                     t \in {10 * HourMs, 12 * HourMs, 23 * HourMs + 30 * MinuteMs}}

At(day, hour, minute) == day * DayMs + hour * HourMs + minute * MinuteMs

Event(id, startTime, endTime) == [id |-> id, startTime |-> startTime, endTime |-> endTime]

CandidateEvents ==
    { Event("bad", InvalidTime, IsoTime(At(0, 13, 0))),
      Event("nostart", NullTime, NullTime),
      Event("mon", IsoTime(At(0, 10, 0)), NullTime),
      Event("monSameEnd", IsoTime(At(0, 10, 0)), IsoTime(At(0, 10, 0))),
      Event("monEarlyEnd", IsoTime(At(0, 10, 0)), IsoTime(At(0, 9, 0))),
      Event("monLong", IsoTime(At(0, 10, 0)), IsoTime(At(0, 23, 30))),
      Event("monBadEnd", IsoTime(At(0, 12, 0)), InvalidTime),
      Event("wed", IsoTime(At(2, 12, 0)), EmptyTime),
      Event("satLate", IsoTime(At(5, 23, 0)), NullTime),
      Event("sun", IsoTime(At(6, 12, 0)), IsoTime(At(6, 12, 0) + 1)),
      Event("sunLate", IsoTime(At(6, 23, 30)), NullTime),
      Event("nextMon", IsoTime(At(7, 10, 0)), NullTime) }

RECURSIVE SeqsUpTo(_, _)
SeqsUpTo(S, n) ==
    IF n = 0 THEN {<<>>}
    ELSE LET shorter == SeqsUpTo(S, n - 1)
         IN shorter \cup {Append(s, x) : s \in {t \in shorter : Len(t) = n - 1}, x \in S}

EventLists == SeqsUpTo(CandidateEvents, MaxEvents)

\* The clock moves by at most a millisecond between the two reads of one call.
ClockSkews == {0, 1}

----------------------------------------------------------------------------
(* The event-listing calls as a state machine *)

EvInit ==
    /\ evEvents \in EventLists
    /\ evTz \in Timezones
    /\ evNow \in NowGrid
    /\ evNowUpcoming = evNow
    /\ evPc = "input"
    /\ evWindow = "none"
    /\ evAllowed = {}
    /\ evResult = <<>>
    /\ evSections = <<>>
    /\ evLive = <<>>
    /\ evThrew = FALSE
    /\ NzIdle
    /\ RsIdle
    /\ AkStart
    /\ TgIdle
    /\ SlIdle
    /\ ZfIdle
    /\ AqIdle
    /\ SsIdle
    /\ IqIdle
    /\ HzIdle
    /\ RtIdle
    /\ TmIdle
    /\ FxIdle

EvFilter(timeWindow, skew) ==
    /\ evPc = "input"
    /\ evPc' = "filtered"
    /\ evWindow' = timeWindow
    /\ evNowUpcoming' = evNow + skew
    /\ IF filterUsesTimezone(timeWindow) /\ TimezoneThrows(evTz)
       THEN /\ evThrew' = TRUE
            /\ evAllowed' = {}
            /\ evResult' = <<>>
       ELSE /\ evThrew' = FALSE
            /\ evAllowed' = IF filterUsesTimezone(timeWindow)
                            THEN allowedDateKeys(evNow, evTz, timeWindow)
                            ELSE {}
            /\ evResult' = filterEventsByTimeWindow(evEvents, evTz, timeWindow,
                                                    evNow, evNow + skew)
    /\ UNCHANGED <<evEvents, evTz, evNow, evSections, evLive>>
    /\ UNCHANGED evOthers

EvGroup ==
    /\ evPc = "input"
    /\ evPc' = "grouped"
    /\ IF TimezoneThrows(evTz)
       THEN /\ evThrew' = TRUE
            /\ evSections' = <<>>
       ELSE /\ evThrew' = FALSE
            /\ evSections' = groupEventsByDay(evEvents, evTz, evNow)
    /\ UNCHANGED <<evEvents, evTz, evNow, evNowUpcoming, evWindow, evAllowed,
                   evResult, evLive>>
    /\ UNCHANGED evOthers

EvLive ==
    /\ evPc = "input"
    /\ evPc' = "live"
    /\ evLive' = [i \in 1..Len(evEvents) |-> isEventLiveNow(evEvents[i], evNow)]
    /\ UNCHANGED <<evEvents, evTz, evNow, evNowUpcoming, evWindow, evAllowed,
                   evResult, evSections, evThrew>>
    /\ UNCHANGED evOthers

EvNext ==
    \/ \E timeWindow \in TimeWindows, skew \in ClockSkews : EvFilter(timeWindow, skew)
    \/ EvGroup
    \/ EvLive

SpecEvents == EvInit /\ [][EvNext]_vars

----------------------------------------------------------------------------
(* findNearestZone as a state machine *)

Str_gb == <<"g", "b">>

PlainZone(slug, name, lat, lng) ==
    ZoneRecord(slug, name, JsonNumber(lat), JsonNumber(lng), <<>>, <<>>, TRUE, FALSE)

CandidateZones ==
    { PlainZone(<<"a">>, <<"A">>, 0, 0),
      PlainZone(<<"b">>, <<"B">>, 0, 10),
      PlainZone(<<"c">>, <<"C">>, 0, 2),
      ZoneRecord(<<"D", " ">>, <<" ", "D">>, JsonString(<<"1", "0">>),
                 JsonString(<<"1">>), <<>>, <<>>, TRUE, FALSE),
      ZoneRecord(<<"h">>, <<"H">>, JsonNumber(0), JsonNumber(1), <<>>, <<>>, TRUE, TRUE),
      ZoneRecord(<<"i">>, <<"I">>, JsonNumber(0), JsonNumber(1), <<>>, <<>>, FALSE, FALSE),
      ZoneRecord(<<"m">>, <<" ">>, JsonNumber(0), JsonNumber(1), <<>>, <<>>, TRUE, FALSE),
      ZoneRecord(<<"!">>, <<"X">>, JsonNumber(0), JsonNumber(1), <<>>, <<>>, TRUE, FALSE),
      ZoneRecord(<<"o">>, <<"O">>, JsonNull, JsonNull, <<>>, <<>>, TRUE, FALSE),
      ZoneRecord(<<"p">>, <<"P">>, JsonUndefined, JsonNumber(1), <<>>, <<>>, TRUE, FALSE),
      ZoneRecord(<<"u">>, <<"U">>, JsonNumber(0), JsonNumber(1), <<"U", "S">>, <<>>,
                 TRUE, FALSE),
      ZoneRecord(<<"g">>, <<"G">>, JsonNumber(0), JsonNumber(2), <<>>, <<"G", "B", " ">>,
                 TRUE, FALSE),
      NullRecord }

ZoneLists == SeqsUpTo(CandidateZones, MaxZones)

IpLocations ==
    {[lat |-> p[1], lng |-> p[2], countryCode |-> c] :
        p \in {<<0, 0>>, <<0, 1>>, <<10, 1>>}, c \in {<<>>, Str_gb}}

NzInit ==
    /\ nzZones \in ZoneLists
    /\ nzIp \in IpLocations
    /\ nzPc = "input"
    /\ nzResult = NoZone
    /\ nzThrew = FALSE
    /\ EvIdle
    /\ RsIdle
    /\ AkStart
    /\ TgIdle
    /\ SlIdle
    /\ ZfIdle
    /\ AqIdle
    /\ SsIdle
    /\ IqIdle
    /\ HzIdle
    /\ RtIdle
    /\ TmIdle
    /\ FxIdle

NzFind ==
    /\ nzPc = "input"
    /\ nzPc' = "done"
    /\ IF findNearestZoneThrows(nzZones)
       THEN /\ nzThrew' = TRUE
            /\ nzResult' = NoZone
       ELSE /\ nzThrew' = FALSE
            /\ nzResult' = findNearestZone(nzZones, nzIp)
    /\ UNCHANGED <<nzZones, nzIp>>
    /\ UNCHANGED nzOthers

NzNext == NzFind

SpecNearest == NzInit /\ [][NzNext]_vars

----------------------------------------------------------------------------
(* resolveTownContext as a state machine: one step per awaited answer *)

Str_soho == <<"s", "o", "h", "o">>

ResolveInputs ==
    [argumentTownSlug : {<<>>, <<" ", "!">>, <<"S", "o", " ", "H", "o", "!">>},
     defaultTownSlug : {<<>>, <<"K", "e", "n", "t", "i", "s", "h", " ", "T", "o", "w", "n",
                               "!", "!">>},
     apiBaseUrl : {<<>>, <<" ">>, <<"h">>}]

IpReplies ==
    {IpReply(kind, JsonUndefined, JsonUndefined, JsonUndefined, JsonUndefined, <<>>) :
        kind \in FailedReplyKinds}
    \cup
    {IpReply("ok", latitude, lat, longitude, lon, country_code) :
        latitude \in {JsonNumber(0), JsonString(<<"1", "0">>), JsonString(<<>>),
                      JsonString(<<"x">>), JsonNull, JsonUndefined},
        lat \in {JsonUndefined, JsonNumber(10)},
        longitude \in {JsonNumber(1), JsonNull, JsonUndefined},
        lon \in {JsonUndefined, JsonNumber(0)},
        country_code \in {<<>>, <<"G", "B">>}}

MatchReply(kind, slug, name) == [kind |-> kind, slug |-> slug, name |-> name]

MatchReplies ==
    {MatchReply(kind, <<>>, <<>>) : kind \in FailedReplyKinds}
    \cup {MatchReply("ok", <<>>, <<>>),
          MatchReply("ok", <<"!", "!">>, <<"X">>),
          MatchReply("ok", <<"S", "o", "h", "o", " ">>, <<>>),
          MatchReply("ok", Str_soho, <<" ", "S", "o", "h", "o">>)}

ListReply(kind, zones) == [kind |-> kind, zones |-> zones]

ListPayloads ==
    { <<>>,
      <<PlainZone(<<"a">>, <<"A">>, 0, 0), PlainZone(<<"b">>, <<"B">>, 0, 10)>>,
      <<ZoneRecord(<<"h">>, <<"H">>, JsonNumber(0), JsonNumber(1), <<>>, <<>>, TRUE, TRUE)>>,
      <<ZoneRecord(<<"u">>, <<"U">>, JsonNumber(0), JsonNumber(1), <<"U", "S">>, <<>>,
                   TRUE, FALSE)>>,
      <<PlainZone(<<"a">>, <<"A">>, 0, 0), NullRecord>> }

ListReplies ==
    {ListReply(kind, <<>>) : kind \in FailedReplyKinds \cup {"notArray"}}
    \cup {ListReply("ok", zones) : zones \in ListPayloads}

RsInit ==
    /\ rsInput \in ResolveInputs
    /\ rsPc = "start"
    /\ rsCalls = <<>>
    /\ rsIpReply = [kind |-> "none"]
    /\ rsIp = NoIpLocation
    /\ rsUrlIndex = 0
    /\ rsResult = NoContext
    /\ EvIdle
    /\ NzIdle
    /\ AkStart
    /\ TgIdle
    /\ SlIdle
    /\ ZfIdle
    /\ AqIdle
    /\ SsIdle
    /\ IqIdle
    /\ HzIdle
    /\ RtIdle
    /\ TmIdle
    /\ FxIdle

\* resolveTownContext up to its first await.
RsStart ==
    /\ rsPc = "start"
    /\ LET early == resolveWithoutLookup(rsInput)
       IN IF early.source # "none"
          THEN /\ rsPc' = "done"
               /\ rsResult' = early
               /\ rsCalls' = rsCalls
          ELSE /\ rsPc' = "ip"
               /\ rsResult' = rsResult
               /\ rsCalls' = Append(rsCalls, IP_ENDPOINT)
    /\ UNCHANGED <<rsInput, rsIpReply, rsIp, rsUrlIndex>>
    /\ UNCHANGED rsOthers

\* The IP service answers.  Without a location the fallback is returned.  With
\* one, fetchZoneFromCoordinates normalizes the base URL inside its try (a
\* throw means no match) and fetchNearestZoneByDistance outside any try (a
\* throw rejects resolveTownContext).
RsIpAnswer(reply) ==
    /\ rsPc = "ip"
    /\ rsIpReply' = reply
    /\ LET ipLocation == fetchIpLocation(reply)
       IN /\ rsIp' = ipLocation
          /\ IF ~ipLocation.ok
             THEN /\ rsPc' = "done"
                  /\ rsResult' = FallbackContext
                  /\ rsCalls' = rsCalls
             ELSE IF normalizeApiBaseUrl(rsInput.apiBaseUrl).throws
             THEN /\ rsPc' = "rejected"
                  /\ rsResult' = rsResult
                  /\ rsCalls' = rsCalls
             ELSE /\ rsPc' = "match"
                  /\ rsResult' = rsResult
                  /\ rsCalls' = Append(rsCalls, MATCH_ENDPOINT)
    /\ UNCHANGED <<rsInput, rsUrlIndex>>
    /\ UNCHANGED rsOthers

\* The reverse-geocode endpoint answers: its zone is returned, or the zone
\* list is asked for.
RsMatchAnswer(reply) ==
    /\ rsPc = "match"
    /\ LET matchedZone == zoneFromMatchReply(reply)
       IN IF matchedZone.found
          THEN /\ rsPc' = "done"
               /\ rsResult' = TownContext(matchedZone.slug, matchedZone.name, "detected")
               /\ rsCalls' = rsCalls
               /\ rsUrlIndex' = rsUrlIndex
          ELSE /\ rsPc' = "list"
               /\ rsResult' = rsResult
               /\ rsUrlIndex' = 1
               /\ rsCalls' = Append(rsCalls, ZoneListUrls[1])
    /\ UNCHANGED <<rsInput, rsIpReply, rsIp>>
    /\ UNCHANGED rsOthers

\* A zone-list URL answers: fetchJsonWithFallback returns the first array, and
\* findNearestZone runs on it outside any try.
RsListAnswer(reply) ==
    /\ rsPc = "list"
    /\ IF reply.kind = "ok"
       THEN IF findNearestZoneThrows(reply.zones)
            THEN /\ rsPc' = "rejected"
                 /\ rsResult' = rsResult
                 /\ UNCHANGED <<rsCalls, rsUrlIndex>>
            ELSE LET nearestZone == findNearestZone(reply.zones, rsIp)
                 IN /\ rsPc' = "done"
                    /\ rsResult' = IF nearestZone.found
                                   THEN TownContext(nearestZone.slug, nearestZone.name,
                                                    "detected")
                                   ELSE FallbackContext
                    /\ UNCHANGED <<rsCalls, rsUrlIndex>>
       ELSE IF rsUrlIndex < Len(ZoneListUrls)
       THEN /\ rsPc' = "list"
            /\ rsUrlIndex' = rsUrlIndex + 1
            /\ rsCalls' = Append(rsCalls, ZoneListUrls[rsUrlIndex + 1])
            /\ rsResult' = rsResult
       ELSE /\ rsPc' = "done"
            /\ rsResult' = FallbackContext
            /\ UNCHANGED <<rsCalls, rsUrlIndex>>
    /\ UNCHANGED <<rsInput, rsIpReply, rsIp>>
    /\ UNCHANGED rsOthers

RsNext ==
    \/ RsStart
    \/ \E reply \in IpReplies : RsIpAnswer(reply)
    \/ \E reply \in MatchReplies : RsMatchAnswer(reply)
    \/ \E reply \in ListReplies : RsListAnswer(reply)

SpecResolve == RsInit /\ [][RsNext]_vars

----------------------------------------------------------------------------
(* The query effect of the ask command *)

Queries == {"what's on today and tomorrow", "music today"}
Preferences == {"p1", "p2"}

\* A call of askTownspot: the town it asks for, the cancelled flag of the
\* effect run that made it, and whether its promise is settled.
Request(townSlug) == [townSlug |-> townSlug, cancelled |-> FALSE, status |-> "pending"]

\* What askTownspot rejects with: Errors it throws, and a value that is not
\* an Error.
Rejections ==
    {[isError |-> TRUE, message |-> "TownSpot API Base URL is required."],
     [isError |-> TRUE, message |-> "Could not reach TownSpot at http://h/api/raycast/ask."],
     [isError |-> FALSE, message |-> ""]}

\* error instanceof Error ? error.message : "Unable to reach TownSpot"
errorMessageOf(error) ==
    IF error.isError THEN error.message ELSE "Unable to reach TownSpot"

\* The cleanup of the effect run before: cancelled = true in its closure.  The
\* runs before that one were cleaned up when it started.
cleanedUp(requests) ==
    [i \in 1..Len(requests) |->
        IF i = Len(requests) THEN [requests[i] EXCEPT !.cancelled = TRUE] ELSE requests[i]]

\* The same effect without setLoading(false) in the branch of the empty town.
runQueryEffect_KeepsLoading(query, townSlug, hydrated, prefs) ==
    /\ akQuery' = query
    /\ akTown' = townSlug
    /\ akHydrated' = hydrated
    /\ akPrefs' = prefs
    /\ IF townSlug = ""
       THEN /\ akRequests' = cleanedUp(akRequests)
            /\ akResponse' = IF hydrated THEN NoResponse ELSE akResponse
            /\ akError' = IF hydrated THEN "" ELSE akError
            /\ akLoading' = akLoading
       ELSE /\ Len(akRequests) < MaxRequests
            /\ akRequests' = Append(cleanedUp(akRequests), Request(townSlug))
            /\ akLoading' = TRUE
            /\ akError' = ""
            /\ akResponse' = akResponse
    /\ UNCHANGED <<akCache, akLoaded>>
    /\ UNCHANGED akOthers

\* The effect runs again because one of its dependencies changed: the cleanup
\* of the run before, then the body up to the await of askTownspot.
runQueryEffect(query, townSlug, hydrated, prefs) ==
    /\ akQuery' = query
    /\ akTown' = townSlug
    /\ akHydrated' = hydrated
    /\ akPrefs' = prefs
    /\ IF townSlug = ""
       THEN /\ akRequests' = cleanedUp(akRequests)
            /\ akResponse' = IF hydrated THEN NoResponse ELSE akResponse
            /\ akError' = IF hydrated THEN "" ELSE akError
            /\ akLoading' = FALSE
       ELSE /\ Len(akRequests) < MaxRequests
            /\ akRequests' = Append(cleanedUp(akRequests), Request(townSlug))
            /\ akLoading' = TRUE
            /\ akError' = ""
            /\ akResponse' = akResponse
    /\ UNCHANGED <<akCache, akLoaded>>
    /\ UNCHANGED akOthers

AkQueryChanged(query) ==
    /\ query # akQuery
    /\ runQueryEffect(query, akTown, akHydrated, akPrefs)

AkTownChanged(townSlug) ==
    /\ townSlug # akTown
    /\ runQueryEffect(akQuery, townSlug, akHydrated, akPrefs)

AkHydrationChanged ==
    runQueryEffect(akQuery, akTown, ~akHydrated, akPrefs)

AkPreferenceChanged(prefs) ==
    /\ prefs # akPrefs
    /\ runQueryEffect(akQuery, akTown, akHydrated, prefs)

\* askTownspot of request i resolves, and runQuery applies the result even
\* when its effect run has been cleaned up.
runQueryResolved_IgnoresCancelled(i, townSlug) ==
    /\ i \in 1..Len(akRequests)
    /\ akRequests[i].status = "pending"
    /\ akRequests' = [akRequests EXCEPT ![i].status = "resolved"]
    /\ akResponse' = Response(townSlug, i)
    /\ IF townSlug # ""
       THEN /\ akCache' = [akCache EXCEPT ![townSlug] = Response(townSlug, i)]
            /\ akLoaded' = [akLoaded EXCEPT ![townSlug] = TRUE]
       ELSE UNCHANGED <<akCache, akLoaded>>
    /\ akLoading' = FALSE
    /\ UNCHANGED <<akQuery, akTown, akHydrated, akPrefs, akError>>
    /\ UNCHANGED akOthers

\* askTownspot of request i resolves with a response whose town has townSlug:
\* the rest of the try block and the finally block of runQuery.
runQueryResolved(i, townSlug) ==
    /\ i \in 1..Len(akRequests)
    /\ akRequests[i].status = "pending"
    /\ akRequests' = [akRequests EXCEPT ![i].status = "resolved"]
    /\ IF akRequests[i].cancelled
       THEN UNCHANGED <<akResponse, akCache, akLoaded, akLoading>>
       ELSE /\ akResponse' = Response(townSlug, i)
            /\ IF townSlug # ""
               THEN /\ akCache' = [akCache EXCEPT ![townSlug] = Response(townSlug, i)]
                    /\ akLoaded' = [akLoaded EXCEPT ![townSlug] = TRUE]
               ELSE UNCHANGED <<akCache, akLoaded>>
            /\ akLoading' = FALSE
    /\ UNCHANGED <<akQuery, akTown, akHydrated, akPrefs, akError>>
    /\ UNCHANGED akOthers

\* A catch block that lets the error go and leaves the state as it is.
runQueryRejected_Uncaught(i, error) ==
    /\ i \in 1..Len(akRequests)
    /\ akRequests[i].status = "pending"
    /\ akRequests' = [akRequests EXCEPT ![i].status = "rejected"]
    /\ UNCHANGED <<akError, akLoading>>
    /\ UNCHANGED <<akQuery, akTown, akHydrated, akPrefs, akResponse, akCache, akLoaded>>
    /\ UNCHANGED akOthers

\* askTownspot of request i rejects with error: the catch block and the
\* finally block.
runQueryRejected(i, error) ==
    /\ i \in 1..Len(akRequests)
    /\ akRequests[i].status = "pending"
    /\ akRequests' = [akRequests EXCEPT ![i].status = "rejected"]
    /\ IF akRequests[i].cancelled
       THEN UNCHANGED <<akError, akLoading>>
       ELSE /\ akError' = errorMessageOf(error)
            /\ akLoading' = FALSE
    /\ UNCHANGED <<akQuery, akTown, akHydrated, akPrefs, akResponse, akCache, akLoaded>>
    /\ UNCHANGED akOthers

\* A display that takes the latest response whatever its town.
displayResponseForActiveTown_AnyTown ==
    IF akResponse # NoResponse THEN akResponse
    ELSE IF akTown # "" THEN akCache[akTown]
    ELSE NoResponse

\* responseForActiveTown || cachedResponseForActiveTown || null, NoResponse
\* standing for null.
displayResponseForActiveTown ==
    IF akResponse # NoResponse /\ akResponse.townSlug = akTown THEN akResponse
    ELSE IF akTown # "" THEN akCache[akTown]
    ELSE NoResponse

AkInit ==
    /\ AkStart
    /\ EvIdle
    /\ NzIdle
    /\ RsIdle
    /\ TgIdle
    /\ SlIdle
    /\ ZfIdle
    /\ AqIdle
    /\ SsIdle
    /\ IqIdle
    /\ HzIdle
    /\ RtIdle
    /\ TmIdle
    /\ FxIdle

AkNext ==
    \/ \E query \in Queries : AkQueryChanged(query)
    \/ \E townSlug \in TownSlugs \cup {""} : AkTownChanged(townSlug)
    \/ AkHydrationChanged
    \/ \E prefs \in Preferences : AkPreferenceChanged(prefs)
    \/ \E i \in 1..MaxRequests, townSlug \in TownSlugs \cup {""} : runQueryResolved(i, townSlug)
    \/ \E i \in 1..MaxRequests, error \in Rejections : runQueryRejected(i, error)

Spec == AkInit /\ [][AkNext]_vars

----------------------------------------------------------------------------
(* Properties of the query effect *)

AkVisible == <<akResponse, akCache, akLoaded, akError, akLoading>>

\* C1: the completion, success or failure, of a request whose effect run has
\* been cleaned up changes none of response, cachedResponsesByTown,
\* hasLoadedTownData, errorMessage and loading; a result that is applied is the
\* result of the most recently issued request.
C1_StaleCompletionChangesNothing ==
    [][/\ \A i \in 1..Len(akRequests) :
            (/\ akRequests[i].cancelled
             /\ akRequests[i].status = "pending"
             /\ akRequests'[i].status # "pending") => UNCHANGED AkVisible
       /\ \A i \in 1..Len(akRequests) :
            (/\ akRequests[i].status = "pending"
             /\ akRequests'[i].status # "pending"
             /\ AkVisible' # AkVisible) => i = Len(akRequests)]_vars

\* A superseded request and the request that superseded it have both been
\* answered: the response shown is that of the newer request.
C1_Witness ==
    \E i, j \in 1..Len(akRequests) :
        /\ i < j
        /\ akRequests[i].cancelled
        /\ akRequests[i].status = "resolved"
        /\ akRequests[j].status = "resolved"
        /\ ~akRequests[j].cancelled
        /\ akResponse.request = j
        /\ ~akLoading

----------------------------------------------------------------------------
(* Properties of the event filter engine and the day grouper *)

StartParses(event) == event.startTime.kind = "iso"

\* The end of an event as the data model states it: the parsed endTime when it
\* parses and is strictly after the start, the start plus two hours otherwise.
StatedEndMs(event) ==
    IF event.endTime.kind = "iso" /\ event.endTime.ms > event.startTime.ms
    THEN event.endTime.ms
    ELSE event.startTime.ms + 7200000

StatedLive(event, t) ==
    /\ StartParses(event)
    /\ event.startTime.ms <= t
    /\ t < StatedEndMs(event)

InSeq(x, s) == \E i \in 1..Len(s) : s[i] = x

\* C6: isEventLiveNow(e, t) is true iff e.startTime parses and
\* startMs <= t < endMs, endMs being the parsed endTime when it parses and is
\* strictly after startMs, and startMs + 7200000 otherwise.
C6_LiveIffInsideWindow ==
    evPc = "live" =>
        \A i \in 1..Len(evEvents) : evLive[i] = StatedLive(evEvents[i], evNow)

\* An event with an unusable endTime is live at the instant it starts, beside
\* an event that is no longer live at the instant its default two hours end.
C6_Witness ==
    /\ evPc = "live"
    /\ \E i, j \in 1..Len(evEvents) :
        /\ evLive[i]
        /\ evEvents[i].endTime.kind # "iso"
        /\ evEvents[i].startTime.ms = evNow
        /\ ~evLive[j]
        /\ StartParses(evEvents[j])
        /\ evEvents[j].endTime.kind # "iso"
        /\ evEvents[j].startTime.ms + 7200000 = evNow

\* C7: for window "now" the result is exactly the input events that are live
\* at the one instant read at the start of the call, in input order.
C7_NowKeepsExactlyLiveEvents ==
    (evPc = "filtered" /\ evWindow = "now") =>
        LET Live(event) == isEventLiveNow(event, evNow)
        IN evResult = SelectSeq(evEvents, Live)

\* Window "now" keeps a live event and drops an event that is upcoming but
\* has not started.
C7_Witness ==
    /\ evPc = "filtered"
    /\ evWindow = "now"
    /\ Len(evResult) = 1
    /\ \E i \in 1..Len(evEvents) :
        /\ StartParses(evEvents[i])
        /\ evEvents[i].startTime.ms > evNow
        /\ ~InSeq(evEvents[i], evResult)

\* C8: for window "all_upcoming" the result is exactly the input events whose
\* end (with the two-hour default) is strictly after now, in input order.
C8_AllUpcomingKeepsUnendedEvents ==
    (evPc = "filtered" /\ evWindow = "all_upcoming") =>
        LET Unended(event) == StartParses(event) /\ StatedEndMs(event) > evNowUpcoming
        IN evResult = SelectSeq(evEvents, Unended)

\* An event that has started and not ended is kept while an event whose end
\* equals now is dropped.
C8_Witness ==
    /\ evPc = "filtered"
    /\ evWindow = "all_upcoming"
    /\ \E i, j \in 1..Len(evEvents) :
        /\ StartParses(evEvents[i])
        /\ evEvents[i].startTime.ms < evNowUpcoming
        /\ InSeq(evEvents[i], evResult)
        /\ StartParses(evEvents[j])
        /\ StatedEndMs(evEvents[j]) = evNowUpcoming
        /\ ~InSeq(evEvents[j], evResult)

\* C9: an event whose startTime does not parse is in the result of no window
\* and in no section of groupEventsByDay, and no call throws because of it: a
\* call throws only for a timezone Intl rejects.
C9_UnparseableStartExcluded ==
    /\ evPc = "filtered" =>
        \A i \in 1..Len(evResult) : StartParses(evResult[i])
    /\ evPc = "grouped" =>
        \A s \in 1..Len(evSections) :
            \A i \in 1..Len(evSections[s].events) :
                StartParses(evSections[s].events[i])
    /\ evThrew => TimezoneThrows(evTz)

\* A list holding an unparseable event and a parseable one has been grouped
\* into one section.
C9_Witness ==
    /\ evPc = "grouped"
    /\ ~evThrew
    /\ Len(evEvents) = 2
    /\ ~StartParses(evEvents[1])
    /\ StartParses(evEvents[2])
    /\ Len(evSections) = 1

\* C10: for window "this_week" the allowed calendar dates are exactly today
\* through the coming Sunday in the target timezone: 8 minus the weekday number
\* days, none of them after that Sunday.
C10_ThisWeekIsTodayThroughSunday ==
    (evPc = "filtered" /\ evWindow = "this_week" /\ ~evThrew) =>
        LET today == formatDateKey(evNow, evTz)
            weekday == (today % 7) + 1
        IN evAllowed = today..(today + (7 - weekday))

\* C11: in the output of groupEventsByDay, for an input list in any order,
\* the date keys of the sections are non-decreasing in section order and the
\* events of each section are in ascending order of parsed start instant.
C11_SectionsAndEventsAscending ==
    (evPc = "grouped" /\ ~evThrew) =>
        /\ \A s, t \in 1..Len(evSections) :
            s < t => evSections[s].id <= evSections[t].id
        /\ \A s \in 1..Len(evSections) :
            \A i, j \in 1..Len(evSections[s].events) :
                i < j => /\ StartParses(evSections[s].events[i])
                         /\ StartParses(evSections[s].events[j])
                         /\ evSections[s].events[i].startTime.ms
                                <= evSections[s].events[j].startTime.ms

\* Two events of one local day, given latest first, have been grouped into
\* one section holding both.
C11_Witness ==
    /\ evPc = "grouped"
    /\ ~evThrew
    /\ Len(evEvents) = 2
    /\ StartParses(evEvents[1])
    /\ StartParses(evEvents[2])
    /\ evEvents[1].startTime.ms > evEvents[2].startTime.ms
    /\ Len(evSections) = 1
    /\ Len(evSections[1].events) = 2

----------------------------------------------------------------------------
(* Properties of the nearest-zone search *)

NzEligible == {i \in 1..Len(nzZones) : isCandidateZone(nzZones[i], nzIp.countryCode)}

NzDistance(i) ==
    haversineKm(nzIp.lat, nzIp.lng, toNumber(nzZones[i].lat).n, toNumber(nzZones[i].lng).n)

\* C5: findNearestZone returns, among the eligible zones, the one with the
\* smallest haversine distance to the IP location, the first in list order
\* when several share that distance; for a at (0,0), b at (0,10) and an IP
\* location at (0,1) it selects a.
C5_NearestZoneFirstMinimum ==
    (nzPc = "done" /\ ~nzThrew) =>
        /\ IF NzEligible = {} THEN nzResult = NoZone
           ELSE \E i \in NzEligible :
                   /\ \A j \in NzEligible : NzDistance(i) <= NzDistance(j)
                   /\ \A j \in NzEligible : j < i => NzDistance(j) > NzDistance(i)
                   /\ nzResult = Zone(sanitizeTownSlug(nzZones[i].slug),
                                      trim(nzZones[i].name))
        /\ (/\ nzZones = <<PlainZone(<<"a">>, <<"A">>, 0, 0),
                           PlainZone(<<"b">>, <<"B">>, 0, 10)>>
            /\ nzIp.lat = 0
            /\ nzIp.lng = 1) => nzResult.slug = <<"a">>

\* Two eligible zones at the same smallest distance, the second of another
\* slug: the first one has been returned.
C5_Witness ==
    /\ nzPc = "done"
    /\ ~nzThrew
    /\ \E i, j \in NzEligible :
        /\ i < j
        /\ nzZones[i].lat.t = "number"
        /\ nzZones[j].lat.t = "number"
        /\ NzDistance(i) = NzDistance(j)
        /\ NzDistance(i) > 0
        /\ \A k \in NzEligible : NzDistance(i) <= NzDistance(k)
        /\ sanitizeTownSlug(nzZones[i].slug) # sanitizeTownSlug(nzZones[j].slug)
        /\ nzResult.slug = sanitizeTownSlug(nzZones[i].slug)

----------------------------------------------------------------------------
(* Properties of the town resolution *)

RsArgument == sanitizeTownSlug(rsInput.argumentTownSlug)
RsPreference == sanitizeTownSlug(rsInput.defaultTownSlug)

\* C2: resolveTownContext always completes with a TownContext and never
\* throws or rejects, for every input (an empty or whitespace-only apiBaseUrl
\* included) and every outcome of the external calls.
C2_ResolveNeverRejects == rsPc # "rejected"

\* C3: a non-empty sanitized argument is returned with source "argument", and
\* otherwise a non-empty sanitized preference with source "preference",
\* whatever the other inputs are and without any external call.
C3_ArgumentThenPreference ==
    (rsPc \notin {"idle", "start"}) =>
        /\ RsArgument # <<>> =>
            /\ rsPc = "done"
            /\ rsResult.slug = RsArgument
            /\ rsResult.source = "argument"
            /\ rsCalls = <<>>
        /\ (RsArgument = <<>> /\ RsPreference # <<>>) =>
            /\ rsPc = "done"
            /\ rsResult.slug = RsPreference
            /\ rsResult.source = "preference"
            /\ rsCalls = <<>>

\* The argument "So Ho!" has won over a set preference as slug "so-ho".
C3_Witness ==
    /\ rsPc = "done"
    /\ RsPreference # <<>>
    /\ rsInput.argumentTownSlug # RsArgument
    /\ rsResult = TownContext(<<"s", "o", "-", "h", "o">>, <<"S", "o", " ", "H", "o">>,
                              "argument")

\* A coordinate as the claim reads it: a number, or a string of digits.
StatedNumeric(value) ==
    \/ value.t = "number"
    \/ /\ value.t = "string"
       /\ value.s # <<>>
       /\ \A i \in 1..Len(value.s) : value.s[i] \in Digits

\* IP geolocation has failed: a network error, a timeout, a non-2xx status, or
\* a payload whose latitude or longitude is missing or not numeric.
StatedIpFailure(reply) ==
    \/ reply.kind \in FailedReplyKinds
    \/ /\ reply.kind = "ok"
       /\ \/ ~StatedNumeric(Coalesce(reply.latitude, reply.lat))
          \/ ~StatedNumeric(Coalesce(reply.longitude, reply.lon))

\* C4: with argument and preference empty after sanitizing, a failed IP
\* geolocation gives slug "kentish-town" with source "fallback", and neither
\* the reverse-geocode endpoint nor a zone-list endpoint is requested.
C4_IpFailureGivesFallback ==
    (/\ rsPc \notin {"idle", "start", "ip"}
     /\ RsArgument = <<>>
     /\ RsPreference = <<>>
     /\ StatedIpFailure(rsIpReply)) =>
        /\ rsPc = "done" =>
            /\ rsResult.slug = FALLBACK_TOWN_SLUG
            /\ rsResult.source = "fallback"
        /\ \A i \in 1..Len(rsCalls) : rsCalls[i] = IP_ENDPOINT

----------------------------------------------------------------------------
(* Event tags *)

MaxTags == 4

\* normalizeTag: String(value || "").trim().toLowerCase()
normalizeTag(value) == toLowerCase(trim(value))

\* null for a frequency or a price; every label is a non-empty string.
NoLabel == <<>>

FREQUENCY_TAGS ==
    { <<<<"o", "n", "e", "-", "o", "f", "f">>, <<"O", "n", "e", "-", "O", "f", "f">>>>,
      <<<<"o", "n", "e", " ", "o", "f", "f">>, <<"O", "n", "e", "-", "O", "f", "f">>>>,
      <<<<"w", "e", "e", "k", "l", "y">>, <<"W", "e", "e", "k", "l", "y">>>>,
      <<<<"d", "a", "i", "l", "y">>, <<"D", "a", "i", "l", "y">>>>,
      <<<<"m", "o", "n", "t", "h", "l", "y">>, <<"M", "o", "n", "t", "h", "l", "y">>>>,
      <<<<"f", "o", "r", "t", "n", "i", "g", "h", "t", "l", "y">>, <<"F", "o", "r", "t", "n", "i", "g", "h", "t", "l", "y">>>>,
      <<<<"b", "i", "w", "e", "e", "k", "l", "y">>, <<"B", "i", "w", "e", "e", "k", "l", "y">>>>,
      <<<<"w", "e", "e", "k", "d", "a", "y", "s">>, <<"W", "e", "e", "k", "d", "a", "y", "s">>>>,
      <<<<"w", "e", "e", "k", "e", "n", "d", "s">>, <<"W", "e", "e", "k", "e", "n", "d", "s">>>> }

FREE_TAGS == {<<"f", "r", "e", "e">>, <<"g", "r", "a", "t", "i", "s">>, <<"n", "o", " ", "c", "o", "s", "t">>}
PAID_TAGS == {<<"p", "a", "i", "d">>, <<"t", "i", "c", "k", "e", "t", "e", "d">>}

\* FREQUENCY_TAGS[normalized], NoLabel when the key is absent.
frequencyLabel(normalized) ==
    IF \E entry \in FREQUENCY_TAGS : entry[1] = normalized
    THEN (CHOOSE entry \in FREQUENCY_TAGS : entry[1] = normalized)[2]
    ELSE NoLabel

\* dedupeOrdered: the first occurrence of every non-empty value, compared
\* after normalizeTag.
RECURSIVE dedupeLoop(_, _, _)
dedupeLoop(values, seen, output) ==
    IF values = <<>> THEN output
    ELSE LET raw == trim(Head(values))
             normalized == normalizeTag(raw)
         IN IF raw = <<>> \/ normalized \in seen
            THEN dedupeLoop(Tail(values), seen, output)
            ELSE dedupeLoop(Tail(values), seen \cup {normalized}, Append(output, raw))

\* dedupeOrdered that keeps every non-empty value, repetitions included.
dedupeOrdered_KeepsRepetitions(values) ==
    LET NotEmpty(value) == value # <<>>
    IN SelectSeq([i \in 1..Len(values) |-> trim(values[i])], NotEmpty)

dedupeOrdered(values) == dedupeLoop(values, {}, <<>>)

\* The loop of splitEventTags over the remaining tags.
RECURSIVE splitLoop(_, _, _, _)
splitLoop(tags, frequency, price, categories) ==
    IF tags = <<>>
    THEN [categories |-> dedupeOrdered(categories),
          frequency |-> frequency,
          price |-> price]
    ELSE LET raw == trim(Head(tags))
             normalized == normalizeTag(raw)
         IN IF raw = <<>>
            THEN splitLoop(Tail(tags), frequency, price, categories)
            ELSE IF frequency = NoLabel /\ frequencyLabel(normalized) # NoLabel
            THEN splitLoop(Tail(tags), frequencyLabel(normalized), price, categories)
            ELSE IF price = NoLabel /\ normalized \in FREE_TAGS
            THEN splitLoop(Tail(tags), frequency, <<"F", "r", "e", "e">>, categories)
            ELSE IF price = NoLabel /\ normalized \in PAID_TAGS
            THEN splitLoop(Tail(tags), frequency, <<"P", "a", "i", "d">>, categories)
            ELSE splitLoop(Tail(tags), frequency, price, Append(categories, raw))

\* splitEventTags that consumes every tag of the frequency and price
\* vocabularies, whether or not its slot was free.
splitEventTags_ConsumesVocabulary(tags) ==
    LET parts == splitLoop(tags, NoLabel, NoLabel, <<>>)
        IsCategory(tag) ==
            /\ normalizeTag(tag) \notin FREE_TAGS \cup PAID_TAGS
            /\ frequencyLabel(normalizeTag(tag)) = NoLabel
    IN [parts EXCEPT !.categories = SelectSeq(@, IsCategory)]

splitEventTags(tags) == splitLoop(tags, NoLabel, NoLabel, <<>>)

\* The tags an event can carry in the model.
CandidateTags ==
    {<<"F", "r", "e", "e">>, <<"W", "e", "e", "k", "l", "y">>, <<"M", "u", "s", "i", "c">>, <<"P", "a", "i", "d">>, <<" ", "m", "u", "s", "i", "c">>, <<>>}

TagLists == SeqsUpTo(CandidateTags, MaxTags)

TgInit ==
    /\ tgTags \in TagLists
    /\ tgPc = "input"
    /\ tgResult = [categories |-> <<>>, frequency |-> <<>>, price |-> <<>>]
    /\ EvIdle
    /\ NzIdle
    /\ RsIdle
    /\ AkStart
    /\ SlIdle
    /\ ZfIdle
    /\ AqIdle
    /\ SsIdle
    /\ IqIdle
    /\ HzIdle
    /\ RtIdle
    /\ TmIdle
    /\ FxIdle

TgSplit ==
    /\ tgPc = "input"
    /\ tgPc' = "split"
    /\ tgResult' = splitEventTags(tgTags)
    /\ UNCHANGED tgTags
    /\ UNCHANGED tgOthers

TgNext == TgSplit

SpecTags == TgInit /\ [][TgNext]_vars

----------------------------------------------------------------------------
(* Properties of the tag splitter *)

IsPriceTag(tag) == normalizeTag(tag) \in FREE_TAGS \cup PAID_TAGS
IsFrequencyTag(tag) == \E entry \in FREQUENCY_TAGS : entry[1] = normalizeTag(tag)

\* C12: a repeated price tag is consumed once the price slot is filled:
\* ["Free", "Weekly", "Music", "Free"] gives categories ["Music"], frequency
\* "Weekly" and price "Free", and in general no tag of the price or frequency
\* vocabulary is returned among the categories.
C12_RepeatedPriceTagConsumed ==
    tgPc = "split" =>
        /\ \A i \in 1..Len(tgResult.categories) :
            /\ ~IsPriceTag(tgResult.categories[i])
            /\ ~IsFrequencyTag(tgResult.categories[i])
        /\ tgTags = <<<<"F", "r", "e", "e">>, <<"W", "e", "e", "k", "l", "y">>, <<"M", "u", "s", "i", "c">>, <<"F", "r", "e", "e">>>> =>
            tgResult = [categories |-> <<<<"M", "u", "s", "i", "c">>>>,
                        frequency |-> <<"W", "e", "e", "k", "l", "y">>,
                        price |-> <<"F", "r", "e", "e">>]

\* The tags the loop looks at, the first of the frequency vocabulary and the
\* first of the price vocabulary among them (0 when there is none).
TagIsBlank(i) == trim(tgTags[i]) = <<>>
FirstTagWhere(Test(_)) ==
    IF \E i \in 1..Len(tgTags) : Test(tgTags[i])
    THEN CHOOSE i \in 1..Len(tgTags) :
            Test(tgTags[i]) /\ \A j \in 1..(i - 1) : ~Test(tgTags[j])
    ELSE 0
FirstFrequencyTag == FirstTagWhere(IsFrequencyTag)
FirstPriceTag == FirstTagWhere(IsPriceTag)

\* The positions whose tag is returned as a category: not blank, not the tag
\* that filled a slot, and not a repetition of an earlier such tag.
CategoryPositions ==
    LET Left(i) == ~TagIsBlank(i) /\ i # FirstFrequencyTag /\ i # FirstPriceTag
    IN {i \in 1..Len(tgTags) :
            /\ Left(i)
            /\ \A j \in 1..(i - 1) :
                    Left(j) => normalizeTag(tgTags[j]) # normalizeTag(tgTags[i])}

\* C12 (as the code has it): each slot is filled once, by the first tag of its
\* vocabulary, and every other non-blank tag is a category, a later tag of the
\* price or frequency vocabulary included; the categories keep their order and
\* the first spelling of each: ["Free", "Weekly", "Music", "Free"] gives
\* categories ["Music", "Free"], frequency "Weekly" and price "Free".
C12_LaterVocabularyTagIsCategory ==
    tgPc = "split" =>
        /\ tgResult.frequency =
              IF FirstFrequencyTag = 0 THEN NoLabel
              ELSE (CHOOSE entry \in FREQUENCY_TAGS :
                        entry[1] = normalizeTag(tgTags[FirstFrequencyTag]))[2]
        /\ tgResult.price =
              IF FirstPriceTag = 0 THEN NoLabel
              ELSE IF normalizeTag(tgTags[FirstPriceTag]) \in FREE_TAGS
              THEN <<"F", "r", "e", "e">>
              ELSE <<"P", "a", "i", "d">>
        /\ Len(tgResult.categories) = Cardinality(CategoryPositions)
        /\ \A i \in CategoryPositions :
              tgResult.categories[Cardinality({j \in CategoryPositions : j <= i})]
                  = trim(tgTags[i])
        /\ tgTags = <<<<"F", "r", "e", "e">>, <<"W", "e", "e", "k", "l", "y">>, <<"M", "u", "s", "i", "c">>, <<"F", "r", "e", "e">>>> =>
              tgResult = [categories |-> <<<<"M", "u", "s", "i", "c">>, <<"F", "r", "e", "e">>>>,
                          frequency |-> <<"W", "e", "e", "k", "l", "y">>,
                          price |-> <<"F", "r", "e", "e">>]

\* The list of the example has been split: its second "Free" is a category.
C12_Witness ==
    /\ tgPc = "split"
    /\ tgTags = <<<<"F", "r", "e", "e">>, <<"W", "e", "e", "k", "l", "y">>, <<"M", "u", "s", "i", "c">>, <<"F", "r", "e", "e">>>>
    /\ \E i \in 1..Len(tgResult.categories) : IsPriceTag(tgResult.categories[i])

----------------------------------------------------------------------------
(* sanitizeTownSlug on its own *)

MaxSlugLen == 4

\* String(townSlug || ""): an absent argument is the empty string.
StringOrEmpty(value) == IF value.given THEN value.chars ELSE <<>>

SlugAlphabet == {"K", "a", "1", " ", "!", "-"}

SlugInputs ==
    {[given |-> TRUE, chars |-> s] :
        s \in SeqsUpTo(SlugAlphabet, MaxSlugLen)
              \cup {<<"K", "e", "n", "t", "i", "s", "h", " ", "T", "o", "w", "n", "!", "!">>,
                    <<" ", "\t", " ">>}}
    \cup {[given |-> FALSE, chars |-> <<>>]}

SlInit ==
    /\ slInput \in SlugInputs
    /\ slPc = "input"
    /\ slOutput = <<>>
    /\ EvIdle
    /\ NzIdle
    /\ RsIdle
    /\ AkStart
    /\ TgIdle
    /\ ZfIdle
    /\ AqIdle
    /\ SsIdle
    /\ IqIdle
    /\ HzIdle
    /\ RtIdle
    /\ TmIdle
    /\ FxIdle

SlSanitize ==
    /\ slPc = "input"
    /\ slPc' = "done"
    /\ slOutput' = sanitizeTownSlug(StringOrEmpty(slInput))
    /\ UNCHANGED slInput
    /\ UNCHANGED slOthers

\* askTownspot sanitizes the slug it is given once more for the request.
SlSendSanitized ==
    /\ slPc = "done"
    /\ slPc' = "sent"
    /\ slOutput' = sanitizeTownSlug(slOutput)
    /\ UNCHANGED slInput
    /\ UNCHANGED slOthers

SlNext == SlSanitize \/ SlSendSanitized

SpecSlug == SlInit /\ [][SlNext]_vars

----------------------------------------------------------------------------
(* Properties of sanitizeTownSlug *)

SlugCharacters ==
    {LowercaseLetters[i] : i \in 1..Len(LowercaseLetters)} \cup Digits \cup {"-"}

\* The k-th element, in order, of the positions P of a sequence.
KthOf(P, k) == CHOOSE i \in P : Cardinality({j \in P : j <= i}) = k
Pick(s, P) == [k \in 1..Cardinality(P) |-> s[KthOf(P, k)]]

\* The slug as the claim describes it: lowercase and trim the input, turn
\* whitespace into hyphens, keep the characters of [a-z0-9-], and keep of
\* every run of hyphens only the first.
StatedSlug(chars) ==
    LET lowered == trim([i \in 1..Len(chars) |-> LowerOf(chars[i])])
        hyphened == [i \in 1..Len(lowered) |->
                        IF IsWhitespace(lowered[i]) THEN "-" ELSE lowered[i]]
        kept == Pick(hyphened, {i \in 1..Len(hyphened) : hyphened[i] \in SlugCharacters})
    IN Pick(kept, {i \in 1..Len(kept) : ~(kept[i] = "-" /\ i > 1 /\ kept[i - 1] = "-")})

\* C13: sanitizeTownSlug returns the input lowercased, trimmed, whitespace
\* runs turned into hyphens, characters outside [a-z0-9-] removed and hyphen
\* runs collapsed; the output holds only characters of [a-z0-9-] and never two
\* adjacent hyphens; "Kentish Town!!" gives "kentish-town" and a
\* whitespace-only or absent input gives the empty string.
C13_SlugIsSanitized ==
    slPc = "done" =>
        /\ slOutput = StatedSlug(StringOrEmpty(slInput))
        /\ \A i \in 1..Len(slOutput) : slOutput[i] \in SlugCharacters
        /\ \A i \in 1..(Len(slOutput) - 1) : ~(slOutput[i] = "-" /\ slOutput[i + 1] = "-")
        /\ slInput.chars = <<"K", "e", "n", "t", "i", "s", "h", " ", "T", "o", "w", "n", "!", "!">> => slOutput = <<"k", "e", "n", "t", "i", "s", "h", "-", "t", "o", "w", "n">>
        /\ (\A i \in 1..Len(StringOrEmpty(slInput)) : IsWhitespace(slInput.chars[i]))
              => slOutput = <<>>

\* An input whose hyphens meet only once the characters between them are
\* removed has been sanitized to a slug with a single hyphen.
C13_Witness ==
    /\ slPc = "done"
    /\ slInput.chars = <<"a", "-", "!", "-">>
    /\ slOutput = <<"a", "-">>

----------------------------------------------------------------------------
(* The zone directory: fetchActiveZones *)

MaxRawZones == 2

\* replace(/\/$/, "")
stripTrailingSlash(s) ==
    IF s # <<>> /\ s[Len(s)] = "/" THEN SubSeq(s, 1, Len(s) - 1) ELSE s

\* The message of the error normalizeApiBaseUrl throws.
BASE_URL_REQUIRED == <<"TownSpot API Base URL is required.">>

\* The endpoints of fetchActiveZones, in the order they are tried.
zoneEndpoints(normalizedBaseUrl) ==
    <<normalizedBaseUrl \o <<"/", "l", "o", "c", "a", "t", "i", "o", "n", "s", "/", "l", "i", "s", "t">>, normalizedBaseUrl \o <<"/", "l", "i", "s", "t">>>>

\* A record of the payload; a property that is absent is JsonUndefined for a
\* number and the empty string for a string (every string is used as
\* "value || ''"); active is FALSE for active: false and hidden is TRUE for
\* hidden: true; isNull marks a JSON null standing in the array.
RawZone(id, name, slug, country_code, countryCode, activeUsers, weeklyEventsCount, active, hidden) ==
    [isNull |-> FALSE, id |-> id, name |-> name, slug |-> slug,
     country_code |-> country_code, countryCode |-> countryCode,
     activeUsers |-> activeUsers, weeklyEventsCount |-> weeklyEventsCount,
     active |-> active, hidden |-> hidden]

NullRawZone ==
    [isNull |-> TRUE, id |-> JsonUndefined, name |-> <<>>, slug |-> <<>>,
     country_code |-> <<>>, countryCode |-> <<>>,
     activeUsers |-> JsonUndefined, weeklyEventsCount |-> JsonUndefined,
     active |-> TRUE, hidden |-> FALSE]

\* Number(value) with Number.isFinite: Number(null) and Number("") are 0,
\* Number(undefined) is NaN.
finiteNumber(value) ==
    IF value.t = "number" THEN NumberOk(value.n)
    ELSE IF value.t = "string" THEN numberOfString(value.s)
    ELSE IF value.t = "null" THEN NumberOk(0)
    ELSE NullNumber

\* toActiveZoneOption: ok is FALSE for the null it returns.
toActiveZoneOption(zone) ==
    LET id == finiteNumber(zone.id)
        slug == sanitizeTownSlug(zone.slug)
        name == trim(zone.name)
    IN IF ~id.ok \/ slug = <<>> \/ name = <<>> \/ zone.hidden \/ ~zone.active
       THEN [ok |-> FALSE, id |-> 0, name |-> <<>>, slug |-> <<>>, countryCode |-> <<>>,
             activeUsers |-> NullNumber, weeklyEventsCount |-> NullNumber]
       ELSE [ok |-> TRUE, id |-> id.n, name |-> name, slug |-> slug,
             countryCode |-> IF zone.country_code # <<>> THEN zone.country_code
                             ELSE zone.countryCode,
             activeUsers |-> finiteNumber(zone.activeUsers),
             weeklyEventsCount |-> finiteNumber(zone.weeklyEventsCount)]

\* a.localeCompare(b) for names of letters: the letters decide without their
\* case, and of two names that differ in case only the one with the first
\* lowercase letter comes first.
RECURSIVE localeCompare(_, _)
localeCompare(a, b) ==
    LET Rank(c) == IF IsIn(LowerOf(c), LowercaseLetters)
                   THEN IndexIn(LowerOf(c), LowercaseLetters)
                   ELSE 0
        RECURSIVE primary(_, _)
        primary(x, y) ==
            IF x = <<>> /\ y = <<>> THEN 0
            ELSE IF x = <<>> THEN 0 - 1
            ELSE IF y = <<>> THEN 1
            ELSE IF Rank(Head(x)) # Rank(Head(y)) THEN Rank(Head(x)) - Rank(Head(y))
            ELSE primary(Tail(x), Tail(y))
        RECURSIVE tertiary(_, _)
        tertiary(x, y) ==
            IF x = <<>> \/ y = <<>> THEN 0
            ELSE IF Head(x) = Head(y) THEN tertiary(Tail(x), Tail(y))
            ELSE IF Head(x) = LowerOf(Head(x)) THEN 0 - 1
            ELSE 1
    IN IF primary(a, b) # 0 THEN primary(a, b) ELSE tertiary(a, b)

\* options.sort((a, b) => a.name.localeCompare(b.name)); the sort is stable.
RECURSIVE insertByName(_, _)
insertByName(sorted, option) ==
    IF sorted = <<>> THEN <<option>>
    ELSE IF localeCompare(option.name, Head(sorted).name) < 0 THEN <<option>> \o sorted
    ELSE <<Head(sorted)>> \o insertByName(Tail(sorted), option)

RECURSIVE sortByName(_)
sortByName(options) ==
    IF options = <<>> THEN <<>>
    ELSE insertByName(sortByName(SubSeq(options, 1, Len(options) - 1)),
                      options[Len(options)])

\* The body of a 2xx answer: text that is not JSON, a JSON value that is not
\* an array, or an array of records.
InvalidJson == [json |-> "invalid", items |-> <<>>]
JsonObject == [json |-> "object", items |-> <<>>]
JsonArray(items) == [json |-> "array", items |-> items]

\* rawZones.map(toActiveZoneOption) reads zone.id, a TypeError on a null.
mapThrows(body) ==
    body.json = "array" /\ \E i \in 1..Len(body.items) : body.items[i].isNull

\* The options of a parsed payload: converted, the nulls dropped, sorted.
IsOption(option) == option.ok
activeZonesOf(body) ==
    LET rawZones == IF body.json = "array" THEN body.items ELSE <<>>
    IN sortByName(SelectSeq([i \in 1..Len(rawZones) |-> toActiveZoneOption(rawZones[i])],
                            IsOption))

\* lastStatus after an attempt that gave no 2xx answer, keeping what the
\* earlier attempt left when the request itself failed.
lastStatusAfter_KeepsEarlier(previous, reply) ==
    IF reply.kind = "status" THEN reply.status ELSE previous

\* lastStatus after an attempt that gave no 2xx answer: the status of the
\* answer, 0 when the request itself failed.
lastStatusAfter(previous, reply) ==
    IF reply.kind = "status" THEN reply.status ELSE 0

\* `Could not load active towns (${lastStatus || "network"})`
loadErrorMessage(lastStatus) ==
    <<"Could not load active towns (",
      IF lastStatus # 0 THEN ToString(lastStatus) ELSE "network",
      ")">>

\* The base URLs of the preferences.
BaseUrls ==
    {<<>>, <<" ", " ">>, <<"h">>, <<"h", "t", "t", "p", ":", "/", "/", "h", "/">>, <<"l", "o", "c", "a", "l", "h", "o", "s", "t">>, <<" ", "h", "t", "t", "p", "s", ":", "/", "/", "l", "o", "c", "a", "l", "h", "o", "s", "t", " ">>}

Str_A == <<"A">>
Str_a == <<"a">>

PlainRawZone(id, name, slug) ==
    RawZone(id, name, slug, <<>>, <<>>, JsonUndefined, JsonUndefined, TRUE, FALSE)

CandidateRawZones ==
    { PlainRawZone(JsonNumber(1), Str_A, Str_a),
      PlainRawZone(JsonNumber(2), <<"B">>, <<"A", " ">>),
      PlainRawZone(JsonString(<<"3">>), <<"b">>, <<"b">>),
      PlainRawZone(JsonNull, <<"C">>, <<"c">>),
      PlainRawZone(JsonUndefined, <<"D">>, <<"d">>),
      PlainRawZone(JsonNumber(6), <<" ">>, <<"e">>),
      PlainRawZone(JsonNumber(7), <<"F">>, <<"!">>),
      RawZone(JsonNumber(8), <<"G">>, <<"g">>, Str_gb, <<>>, JsonNumber(5), JsonUndefined,
              TRUE, TRUE),
      RawZone(JsonNumber(9), <<"H">>, <<"h">>, <<>>, Str_gb, JsonUndefined, JsonString(<<"4">>),
              FALSE, FALSE),
      NullRawZone }

ZoneReply(kind, status, body) == [kind |-> kind, status |-> status, body |-> body]

ZoneReplies ==
    {ZoneReply("network", 0, InvalidJson)}
    \cup {ZoneReply("status", status, InvalidJson) : status \in {404, 500}}
    \cup {ZoneReply("ok", 200, body) :
            body \in {InvalidJson, JsonObject}
                     \cup {JsonArray(items) : items \in SeqsUpTo(CandidateRawZones, MaxRawZones)}}

ZfStart ==
    /\ zfPc = "start"
    /\ LET normalized == normalizeApiBaseUrl(zfBaseUrl)
       IN IF normalized.throws
          THEN /\ zfPc' = "rejected"
               /\ zfError' = BASE_URL_REQUIRED
               /\ zfCalls' = zfCalls
          ELSE /\ zfPc' = "wait"
               /\ zfError' = zfError
               /\ zfCalls' = <<zoneEndpoints(stripTrailingSlash(normalized.url))[1]>>
    /\ UNCHANGED <<zfBaseUrl, zfReplies, zfLastStatus, zfResult>>
    /\ UNCHANGED zfOthers

ZfAnswer(reply) ==
    /\ zfPc = "wait"
    /\ zfReplies' = Append(zfReplies, reply)
    /\ IF reply.kind = "ok"
       THEN /\ zfCalls' = zfCalls
            /\ zfLastStatus' = zfLastStatus
            /\ IF reply.body.json = "invalid"
               THEN /\ zfPc' = "rejected"
                    /\ zfError' = <<"SyntaxError">>
                    /\ zfResult' = zfResult
               ELSE IF mapThrows(reply.body)
               THEN /\ zfPc' = "rejected"
                    /\ zfError' = <<"TypeError">>
                    /\ zfResult' = zfResult
               ELSE /\ zfPc' = "done"
                    /\ zfError' = zfError
                    /\ zfResult' = activeZonesOf(reply.body)
       ELSE /\ zfLastStatus' = lastStatusAfter(zfLastStatus, reply)
            /\ zfResult' = zfResult
            /\ IF Len(zfCalls) < 2
               THEN /\ zfPc' = "wait"
                    /\ zfError' = zfError
                    /\ zfCalls' = Append(zfCalls,
                          zoneEndpoints(stripTrailingSlash(
                              normalizeApiBaseUrl(zfBaseUrl).url))[Len(zfCalls) + 1])
               ELSE /\ zfPc' = "rejected"
                    /\ zfError' = loadErrorMessage(lastStatusAfter(zfLastStatus, reply))
                    /\ zfCalls' = zfCalls
    /\ UNCHANGED zfBaseUrl
    /\ UNCHANGED zfOthers

----------------------------------------------------------------------------
(* The backend query: askTownspot *)

\* replace(/\s+/g, " ")
RECURSIVE collapseWhitespace(_)
collapseWhitespace(s) ==
    IF s = <<>> THEN <<>>
    ELSE IF IsWhitespace(Head(s))
    THEN <<" ">> \o collapseWhitespace(trimStart(s))
    ELSE <<Head(s)>> \o collapseWhitespace(Tail(s))

sanitizeQuery(query) ==
    LET trimmed == collapseWhitespace(trim(query))
    IN IF Len(trimmed) # 0 THEN trimmed ELSE <<"w", "h", "a", "t", "'", "s", " ", "o", "n">>

sanitizeLocale(locale) ==
    LET value == trim(IF locale # <<>> THEN locale ELSE <<"e", "n", "-", "G", "B">>)
    IN IF value = <<>> THEN <<"e", "n", "-", "G", "B">> ELSE value

\* s.replace(pattern, replacement) for a string pattern: the first occurrence.
replaceFirst(s, pattern, replacement) ==
    LET Occurs(i) == /\ i + Len(pattern) - 1 <= Len(s)
                     /\ SubSeq(s, i, i + Len(pattern) - 1) = pattern
    IN IF \E i \in 1..Len(s) : Occurs(i)
       THEN LET first == CHOOSE i \in 1..Len(s) :
                             Occurs(i) /\ \A j \in 1..(i - 1) : ~Occurs(j)
            IN SubSeq(s, 1, first - 1) \o replacement
               \o SubSeq(s, first + Len(pattern), Len(s))
       ELSE s

Str_localhost == <<"l", "o", "c", "a", "l", "h", "o", "s", "t">>
Str_loopback == <<"1", "2", "7", ".", "0", ".", "0", ".", "1">>

\* buildLocalEndpointCandidates: [...new Set([endpoint, its 127.0.0.1 form])]
buildLocalEndpointCandidates(baseUrl) ==
    LET endpoint == stripTrailingSlash(baseUrl) \o <<"/", "r", "a", "y", "c", "a", "s", "t", "/", "q", "u", "e", "r", "y">>
        loopback == replaceFirst(endpoint, Str_localhost, Str_loopback)
    IN IF loopback = endpoint THEN <<endpoint>> ELSE <<endpoint, loopback>>

\* buildFailureMessage, as the parts of its template.
buildFailureMessage(endpoint, details) ==
    <<"Could not reach TownSpot at ", endpoint,
      ". Verify the server is running and reachable. Try ",
      replaceFirst(endpoint, Str_localhost, Str_loopback),
      " for 127.0.0.1 fallback. (", details, ")">>

UNKNOWN_NETWORK_ERROR == <<"u", "n", "k", "n", "o", "w", "n", " ", "n", "e", "t", "w", "o", "r", "k", " ", "e", "r", "r", "o", "r">>

\* The default of payload.limit || 8.
DEFAULT_LIMIT == 8

\* The request askTownspot posts to an endpoint.
AskRequest(endpoint, payload) ==
    [endpoint |-> endpoint,
     query |-> sanitizeQuery(payload.query),
     townSlug |-> sanitizeTownSlug(payload.townSlug),
     locale |-> sanitizeLocale(payload.locale),
     limit |-> IF payload.limit # 0 THEN payload.limit ELSE DEFAULT_LIMIT]

\* An answer to a request.  kind "error": fetch rejected with an Error whose
\* message is text; kind "thrown": fetch rejected with a value that is not an
\* Error; kind "response": a response with a status, the url it reports, its
\* status text, its body text, and whether that body is JSON.
AskReply(kind, status, url, statusText, text, isJson) ==
    [kind |-> kind, status |-> status, url |-> url, statusText |-> statusText,
     text |-> text, isJson |-> isJson]

\* response.ok
IsOk(status) == status >= 200 /\ status <= 299

\* The loop stops on every answer that is a response, like the first.
attemptEnds_OnlyWhenOk(reply) == reply.kind = "response" /\ IsOk(reply.status)

\* The loop of askTownspot reaches its break when fetch resolved.
attemptEnds(reply) == reply.kind = "response"

\* lastError.message after a rejected fetch.
lastErrorAfter(reply) ==
    IF reply.kind = "error" THEN reply.text ELSE UNKNOWN_NETWORK_ERROR

\* `TownSpot query failed (${status}) at ${checkedEndpoint}: ${details || statusText}`
queryFailedMessage(reply, firstEndpoint) ==
    <<"TownSpot query failed (", ToString(reply.status), ") at ",
      IF reply.url # <<>> THEN reply.url ELSE firstEndpoint,
      ": ",
      IF reply.text # <<>> THEN reply.text ELSE reply.statusText>>

AskPayloads ==
    {[query |-> query, townSlug |-> Str_soho, locale |-> <<>>, limit |-> limit,
      apiBaseUrl |-> apiBaseUrl] :
        query \in {<<>>, <<" ", "g", "i", "g", "s", " ", " ", "n", "o", "w">>}, limit \in {0, 120}, apiBaseUrl \in BaseUrls}

AskReplies ==
    {AskReply("error", 0, <<>>, <<>>, text, FALSE) : text \in {<<>>, <<"r", "e", "f", "u", "s", "e", "d">>, <<"r", "e", "s", "e", "t">>}}
    \cup {AskReply("thrown", 0, <<>>, <<>>, <<>>, FALSE)}
    \cup {AskReply("response", status, url, <<"E", "r", "r", "o", "r">>, text, isJson) :
            status \in {200, 404, 500}, url \in {<<>>, <<"h", "t", "t", "p", ":", "/", "/", "h", "/", "r", "a", "y", "c", "a", "s", "t", "/", "q", "u", "e", "r", "y">>},
            text \in {<<>>, <<"b", "o", "o", "m">>}, isJson \in BOOLEAN}

AqStart ==
    /\ aqPc = "start"
    /\ LET apiBaseUrl == normalizeApiBaseUrl(aqPayload.apiBaseUrl)
       IN IF apiBaseUrl.throws
          THEN /\ aqPc' = "rejected"
               /\ aqError' = BASE_URL_REQUIRED
               /\ aqCalls' = aqCalls
          ELSE /\ aqPc' = "wait"
               /\ aqError' = aqError
               /\ aqCalls' = <<AskRequest(buildLocalEndpointCandidates(apiBaseUrl.url)[1],
                                          aqPayload)>>
    /\ UNCHANGED <<aqPayload, aqReplies, aqLastError, aqResult>>
    /\ UNCHANGED aqOthers

AqAnswer(reply) ==
    /\ aqPc = "wait"
    /\ aqReplies' = Append(aqReplies, reply)
    /\ LET candidateEndpoints ==
               buildLocalEndpointCandidates(normalizeApiBaseUrl(aqPayload.apiBaseUrl).url)
       IN IF attemptEnds(reply)
          THEN /\ aqCalls' = aqCalls
               /\ aqLastError' = aqLastError
               /\ IF ~IsOk(reply.status)
                  THEN /\ aqPc' = "rejected"
                       /\ aqError' = queryFailedMessage(reply, candidateEndpoints[1])
                       /\ aqResult' = aqResult
                  ELSE IF ~reply.isJson
                  THEN /\ aqPc' = "rejected"
                       /\ aqError' = <<"SyntaxError">>
                       /\ aqResult' = aqResult
                  ELSE /\ aqPc' = "done"
                       /\ aqError' = aqError
                       /\ aqResult' = reply.status
          ELSE /\ aqLastError' = lastErrorAfter(reply)
               /\ aqResult' = aqResult
               /\ IF Len(aqCalls) < Len(candidateEndpoints)
                  THEN /\ aqPc' = "wait"
                       /\ aqError' = aqError
                       /\ aqCalls' = Append(aqCalls,
                             AskRequest(candidateEndpoints[Len(aqCalls) + 1], aqPayload))
                  ELSE /\ aqPc' = "rejected"
                       /\ aqCalls' = aqCalls
                       /\ aqError' =
                             buildFailureMessage(
                                 candidateEndpoints[1],
                                 IF lastErrorAfter(reply) # <<>> THEN lastErrorAfter(reply)
                                 ELSE UNKNOWN_NETWORK_ERROR)
    /\ UNCHANGED aqPayload
    /\ UNCHANGED aqOthers

----------------------------------------------------------------------------
(* The backend calls as a state machine: one call runs, given its base URL *)

BkInit ==
    /\ \/ /\ zfBaseUrl \in BaseUrls
          /\ zfPc = "start"
          /\ zfCalls = <<>>
          /\ zfReplies = <<>>
          /\ zfLastStatus = 0
          /\ zfResult = <<>>
          /\ zfError = <<>>
          /\ AqIdle
       \/ /\ aqPayload \in AskPayloads
          /\ aqPc = "start"
          /\ aqCalls = <<>>
          /\ aqReplies = <<>>
          /\ aqLastError = <<>>
          /\ aqResult = 0
          /\ aqError = <<>>
          /\ ZfIdle
    /\ EvIdle
    /\ NzIdle
    /\ RsIdle
    /\ AkStart
    /\ TgIdle
    /\ SlIdle
    /\ SsIdle
    /\ IqIdle
    /\ HzIdle
    /\ RtIdle
    /\ TmIdle
    /\ FxIdle

BkNext ==
    \/ ZfStart
    \/ \E reply \in ZoneReplies : ZfAnswer(reply)
    \/ AqStart
    \/ \E reply \in AskReplies : AqAnswer(reply)

SpecBackend == BkInit /\ [][BkNext]_vars

----------------------------------------------------------------------------
(* Properties of the zone directory *)

EndsWith(s, suffix) ==
    /\ Len(suffix) <= Len(s)
    /\ SubSeq(s, Len(s) - Len(suffix) + 1, Len(s)) = suffix

WithoutSuffix(s, suffix) == SubSeq(s, 1, Len(s) - Len(suffix))

\* C14: fetchActiveZones requests {base}/locations/list first and {base}/list
\* only when the first attempt gave no 2xx answer (a non-2xx status or a
\* network error), and then it does request it; after a 2xx answer it requests
\* nothing further and uses that answer; when both attempts fail the error
\* carries the HTTP status of the last attempt, or "network" when the last
\* attempt failed at the network level.
C14_ListEndpointsInOrder ==
    /\ Len(zfCalls) <= 2
    /\ Len(zfReplies) <= Len(zfCalls)
    /\ Len(zfCalls) >= 1 => EndsWith(zfCalls[1], <<"/", "l", "o", "c", "a", "t", "i", "o", "n", "s", "/", "l", "i", "s", "t">>)
    /\ Len(zfCalls) = 2 =>
        /\ zfCalls[2] = WithoutSuffix(zfCalls[1], <<"/", "l", "o", "c", "a", "t", "i", "o", "n", "s", "/", "l", "i", "s", "t">>) \o <<"/", "l", "i", "s", "t">>
        /\ Len(zfReplies) >= 1
        /\ zfReplies[1].kind # "ok"
    /\ (Len(zfReplies) >= 1 /\ zfReplies[1].kind # "ok") => Len(zfCalls) = 2
    /\ \A k \in 1..Len(zfReplies) :
        zfReplies[k].kind = "ok" =>
            /\ k = Len(zfReplies)
            /\ k = Len(zfCalls)
            /\ zfPc \in {"done", "rejected"}
    /\ zfPc = "done" => zfReplies[Len(zfReplies)].kind = "ok"
    /\ (Len(zfReplies) = 2 /\ zfReplies[2].kind # "ok") =>
        /\ zfPc = "rejected"
        /\ zfError = <<"Could not load active towns (",
                       IF zfReplies[2].kind = "status"
                       THEN ToString(zfReplies[2].status)
                       ELSE "network",
                       ")">>

\* The first endpoint answered with a status and the second request failed
\* at the network level: the error carries "network".
C14_Witness ==
    /\ zfPc = "rejected"
    /\ Len(zfCalls) = 2
    /\ Len(zfReplies) = 2
    /\ zfReplies[1].kind = "status"
    /\ zfReplies[2].kind = "network"
    /\ zfError[2] = "network"

\* The checks of a raw record as the claim states them.
StatedValidZone(zone) ==
    /\ ~zone.isNull
    /\ StatedNumeric(zone.id)
    /\ sanitizeTownSlug(zone.slug) # <<>>
    /\ trim(zone.name) # <<>>
    /\ ~zone.hidden
    /\ zone.active

\* The records of the payload that the last answer carried.
ZfPayloadItems ==
    IF zfReplies # <<>> /\ zfReplies[Len(zfReplies)].kind = "ok"
       /\ zfReplies[Len(zfReplies)].body.json = "array"
    THEN zfReplies[Len(zfReplies)].body.items
    ELSE <<>>

\* C15: every zone returned by fetchActiveZones has a finite numeric id, a
\* non-empty sanitized slug and a non-empty trimmed name and comes from a raw
\* record that is neither hidden: true nor active: false; the records that
\* fail a check are dropped and do not fail the fetch; a 2xx payload that is
\* not an array gives the empty list.
C15_OnlyValidZonesReturned ==
    /\ zfPc = "done" =>
        /\ \A i \in 1..Len(zfResult) :
            /\ zfResult[i].ok
            /\ zfResult[i].slug # <<>>
            /\ zfResult[i].slug = sanitizeTownSlug(zfResult[i].slug)
            /\ zfResult[i].name # <<>>
            /\ zfResult[i].name = trim(zfResult[i].name)
            /\ \E k \in 1..Len(ZfPayloadItems) :
                /\ StatedValidZone(ZfPayloadItems[k])
                /\ sanitizeTownSlug(ZfPayloadItems[k].slug) = zfResult[i].slug
                /\ trim(ZfPayloadItems[k].name) = zfResult[i].name
        /\ Len(zfResult) =
              Cardinality({k \in 1..Len(ZfPayloadItems) : StatedValidZone(ZfPayloadItems[k])})
    /\ (zfReplies # <<>> /\ zfReplies[Len(zfReplies)].kind = "ok"
        /\ zfReplies[Len(zfReplies)].body.json # "invalid") =>
        /\ zfPc = "done"
        /\ zfReplies[Len(zfReplies)].body.json # "array" => zfResult = <<>>

\* C16: the zone list returned by fetchActiveZones is deduplicated: no two
\* returned zones have the same slug.
C16_ReturnedSlugsAreUnique ==
    zfPc = "done" =>
        \A i, j \in 1..Len(zfResult) :
            i # j => zfResult[i].slug # zfResult[j].slug

----------------------------------------------------------------------------
(* Properties of the API base URL *)

IsBlank(s) == \A i \in 1..Len(s) : IsWhitespace(s[i])

\* A URI scheme followed by "://" opens the value: a letter, then letters,
\* digits, "+", "." or "-".
StatedHasScheme(value) ==
    \E k \in 2..(Len(value) - 2) :
        /\ SubSeq(value, k, k + 2) = <<":", "/", "/">>
        /\ IsLetter(value[1])
        /\ \A i \in 2..(k - 1) :
            IsLetter(value[i]) \/ value[i] \in Digits \/ value[i] \in {"+", ".", "-"}

\* The base a request is built on, as the claim states it: the value itself
\* when it has a scheme, the value behind "http://" otherwise (surrounding
\* whitespace and one trailing slash set aside).
StatedBase(apiBaseUrl) ==
    LET value == stripTrailingSlash(trim(apiBaseUrl))
    IN IF StatedHasScheme(trim(apiBaseUrl)) THEN value ELSE <<"h", "t", "t", "p", ":", "/", "/">> \o value

\* C17: an empty or whitespace-only API base URL is a hard configuration
\* error: askTownspot and fetchActiveZones fail with "TownSpot API Base URL is
\* required." before any request is issued; a base URL without a URI scheme is
\* used with "http://" prepended and one with a scheme is used unchanged.
C17_BaseUrlRequiredAndNormalized ==
    /\ (zfPc # "idle" /\ IsBlank(zfBaseUrl)) =>
        /\ zfCalls = <<>>
        /\ zfPc \in {"start", "rejected"}
        /\ zfPc = "rejected" => zfError = <<"TownSpot API Base URL is required.">>
    /\ (aqPc # "idle" /\ IsBlank(aqPayload.apiBaseUrl)) =>
        /\ aqCalls = <<>>
        /\ aqPc \in {"start", "rejected"}
        /\ aqPc = "rejected" => aqError = <<"TownSpot API Base URL is required.">>
    /\ (zfPc # "idle" /\ ~IsBlank(zfBaseUrl)) =>
        /\ zfPc # "start" => zfCalls # <<>>
        /\ zfCalls # <<>> =>
            zfCalls[1] = StatedBase(zfBaseUrl) \o <<"/", "l", "o", "c", "a", "t", "i", "o", "n", "s", "/", "l", "i", "s", "t">>
    /\ (aqPc # "idle" /\ ~IsBlank(aqPayload.apiBaseUrl)) =>
        /\ aqPc # "start" => aqCalls # <<>>
        /\ aqCalls # <<>> =>
            aqCalls[1].endpoint = StatedBase(aqPayload.apiBaseUrl) \o <<"/", "r", "a", "y", "c", "a", "s", "t", "/", "q", "u", "e", "r", "y">>

\* askTownspot was given a whitespace-only base URL and has failed with the
\* configuration error, no request issued.
C17_Witness ==
    /\ aqPc = "rejected"
    /\ aqPayload.apiBaseUrl = <<" ", " ">>
    /\ aqCalls = <<>>
    /\ aqError = BASE_URL_REQUIRED

----------------------------------------------------------------------------
(* Properties of the backend query *)

IsNetworkFailure(reply) == reply.kind \in {"error", "thrown"}

\* C18: askTownspot tries the next candidate endpoint (the 127.0.0.1 form of
\* a localhost URL) only when the request to the previous candidate failed at
\* the network level; the first response received, 2xx or not, ends the
\* attempts; a non-2xx response gives an error that holds the status and the
\* body text; when every candidate fails at the network level the error names
\* the attempted endpoint and the last network error.
C18_NextCandidateOnlyAfterNetworkFailure ==
    /\ Len(aqCalls) <= 2
    /\ Len(aqReplies) <= Len(aqCalls)
    /\ Len(aqCalls) = 2 =>
        /\ Len(aqReplies) >= 1
        /\ IsNetworkFailure(aqReplies[1])
        /\ aqCalls[2].endpoint # aqCalls[1].endpoint
        /\ aqCalls[2].endpoint = replaceFirst(aqCalls[1].endpoint, Str_localhost, Str_loopback)
    /\ \A k \in 1..Len(aqReplies) :
        aqReplies[k].kind = "response" =>
            /\ k = Len(aqReplies)
            /\ k = Len(aqCalls)
            /\ aqPc \in {"done", "rejected"}
    /\ (aqReplies # <<>> /\ aqReplies[Len(aqReplies)].kind = "response"
        /\ ~IsOk(aqReplies[Len(aqReplies)].status)) =>
        /\ aqPc = "rejected"
        /\ aqError[1] = "TownSpot query failed ("
        /\ aqError[2] = ToString(aqReplies[Len(aqReplies)].status)
        /\ aqReplies[Len(aqReplies)].text # <<>> =>
              aqError[6] = aqReplies[Len(aqReplies)].text
    /\ (aqPc = "rejected" /\ aqReplies # <<>>
        /\ \A k \in 1..Len(aqReplies) : IsNetworkFailure(aqReplies[k])) =>
        /\ aqError[1] = "Could not reach TownSpot at "
        /\ aqError[2] = aqCalls[1].endpoint
        /\ (aqReplies[Len(aqReplies)].kind = "error"
            /\ aqReplies[Len(aqReplies)].text # <<>>) =>
              aqError[6] = aqReplies[Len(aqReplies)].text

\* Both candidates of a localhost URL failed at the network level, with
\* different errors: the error names the first endpoint and the second error.
C18_Witness ==
    /\ aqPc = "rejected"
    /\ Len(aqCalls) = 2
    /\ Len(aqReplies) = 2
    /\ aqReplies[1].kind = "error"
    /\ aqReplies[2].kind = "error"
    /\ aqReplies[1].text # aqReplies[2].text
    /\ aqError[2] = aqCalls[1].endpoint
    /\ aqError[6] = aqReplies[2].text
    /\ aqError[6] # <<>>

----------------------------------------------------------------------------
(* The search bar of the ask command: debounce, inference, manual selection *)

\* The wait of useDebouncedValue(searchText, 200), and the step of the clock.
DEBOUNCE_WAIT_MS == 200
TickMs == 100

CATEGORY_ALL == "All"
DEFAULT_TIME_WINDOW == "today_tomorrow"

\* replace(/[^a-z0-9\s]/g, " ")
punctuationToSpaces(s) ==
    [i \in 1..Len(s) |->
        IF IsIn(s[i], LowercaseLetters) \/ s[i] \in Digits \/ IsWhitespace(s[i])
        THEN s[i] ELSE " "]

normalizeWindowQuery(value) ==
    trim(collapseWhitespace(punctuationToSpaces(toLowerCase(value))))

\* query.includes(part), query.startsWith(part)
includes(query, part) ==
    \E i \in 1..(Len(query) - Len(part) + 1) : SubSeq(query, i, i + Len(part) - 1) = part
startsWith(query, part) ==
    Len(part) <= Len(query) /\ SubSeq(query, 1, Len(part)) = part

\* The now-phrases of inferTimeWindowFromQuery and hasExplicitTimeIntent.
hasNowPhrase(query) ==
    \/ includes(query, <<"r", "i", "g", "h", "t", " ", "n", "o", "w">>)
    \/ includes(query, <<"h", "a", "p", "p", "e", "n", "i", "n", "g", " ", "n", "o", "w">>)
    \/ includes(query, <<"o", "n", " ", "n", "o", "w">>)
    \/ includes(query, <<"l", "i", "v", "e", " ", "n", "o", "w">>)
    \/ query = <<"n", "o", "w">>
    \/ startsWith(query, <<"n", "o", "w", " ">>)

\* The rules with "this week" tested before "this weekend".
inferTimeWindowFromQuery_WeekBeforeWeekend(value) ==
    LET query == normalizeWindowQuery(value)
    IN IF query = <<>> THEN "null"
       ELSE IF hasNowPhrase(query) THEN "now"
       ELSE IF includes(query, <<"a", "l", "l", " ", "u", "p", "c", "o", "m", "i", "n", "g">>) THEN "all_upcoming"
       ELSE IF includes(query, <<"t", "o", "m", "o", "r", "r", "o", "w">>) THEN "today_tomorrow"
       ELSE IF includes(query, <<"t", "h", "i", "s", " ", "w", "e", "e", "k">>) THEN "this_week"
       ELSE IF includes(query, <<"t", "h", "i", "s", " ", "w", "e", "e", "k", "e", "n", "d">>) THEN "next_3_days"
       ELSE IF includes(query, <<"n", "e", "x", "t", " ", "7", " ", "d", "a", "y", "s">>) \/ includes(query, <<"n", "e", "x", "t", " ", "w", "e", "e", "k">>)
       THEN "next_7_days"
       ELSE IF includes(query, <<"n", "e", "x", "t", " ", "3", " ", "d", "a", "y", "s">>) THEN "next_3_days"
       ELSE IF includes(query, <<"t", "o", "d", "a", "y">>) THEN "today"
       ELSE IF includes(query, <<"t", "o", "n", "i", "g", "h", "t">>) THEN "today"
       ELSE "null"

\* inferTimeWindowFromQuery; "null" when no rule fires.
inferTimeWindowFromQuery(value) ==
    LET query == normalizeWindowQuery(value)
    IN IF query = <<>> THEN "null"
       ELSE IF hasNowPhrase(query) THEN "now"
       ELSE IF includes(query, <<"a", "l", "l", " ", "u", "p", "c", "o", "m", "i", "n", "g">>) THEN "all_upcoming"
       ELSE IF includes(query, <<"t", "o", "m", "o", "r", "r", "o", "w">>) THEN "today_tomorrow"
       ELSE IF includes(query, <<"t", "h", "i", "s", " ", "w", "e", "e", "k", "e", "n", "d">>) THEN "next_3_days"
       ELSE IF includes(query, <<"t", "h", "i", "s", " ", "w", "e", "e", "k">>) THEN "this_week"
       ELSE IF includes(query, <<"n", "e", "x", "t", " ", "7", " ", "d", "a", "y", "s">>) \/ includes(query, <<"n", "e", "x", "t", " ", "w", "e", "e", "k">>)
       THEN "next_7_days"
       ELSE IF includes(query, <<"n", "e", "x", "t", " ", "3", " ", "d", "a", "y", "s">>) THEN "next_3_days"
       ELSE IF includes(query, <<"t", "o", "d", "a", "y">>) THEN "today"
       ELSE IF includes(query, <<"t", "o", "n", "i", "g", "h", "t">>) THEN "today"
       ELSE "null"

\* The same list without "tonight".
hasExplicitTimeIntent_WithoutTonight(value) ==
    LET query == normalizeWindowQuery(value)
    IN IF query = <<>> THEN FALSE
       ELSE \/ hasNowPhrase(query)
            \/ includes(query, <<"t", "o", "d", "a", "y">>)
            \/ includes(query, <<"t", "o", "m", "o", "r", "r", "o", "w">>)
            \/ includes(query, <<"t", "h", "i", "s", " ", "w", "e", "e", "k", "e", "n", "d">>)
            \/ includes(query, <<"t", "h", "i", "s", " ", "w", "e", "e", "k">>)
            \/ includes(query, <<"n", "e", "x", "t", " ", "w", "e", "e", "k">>)
            \/ includes(query, <<"n", "e", "x", "t", " ", "3", " ", "d", "a", "y", "s">>)
            \/ includes(query, <<"n", "e", "x", "t", " ", "7", " ", "d", "a", "y", "s">>)
            \/ includes(query, <<"a", "l", "l", " ", "u", "p", "c", "o", "m", "i", "n", "g">>)

hasExplicitTimeIntent(value) ==
    LET query == normalizeWindowQuery(value)
    IN IF query = <<>> THEN FALSE
       ELSE \/ hasNowPhrase(query)
            \/ includes(query, <<"t", "o", "d", "a", "y">>)
            \/ includes(query, <<"t", "o", "m", "o", "r", "r", "o", "w">>)
            \/ includes(query, <<"t", "o", "n", "i", "g", "h", "t">>)
            \/ includes(query, <<"t", "h", "i", "s", " ", "w", "e", "e", "k", "e", "n", "d">>)
            \/ includes(query, <<"t", "h", "i", "s", " ", "w", "e", "e", "k">>)
            \/ includes(query, <<"n", "e", "x", "t", " ", "w", "e", "e", "k">>)
            \/ includes(query, <<"n", "e", "x", "t", " ", "3", " ", "d", "a", "y", "s">>)
            \/ includes(query, <<"n", "e", "x", "t", " ", "7", " ", "d", "a", "y", "s">>)
            \/ includes(query, <<"a", "l", "l", " ", "u", "p", "c", "o", "m", "i", "n", "g">>)

\* /\b(word)\b/.test(query) for a normalized query, whose words are set apart
\* by single spaces.
hasWord(query, word) ==
    includes(<<" ">> \o query \o <<" ">>, <<" ">> \o word \o <<" ">>)
hasAnyWord(query, words) == \E word \in words : hasWord(query, word)

\* inferCategoryFromQuery; "null" when no rule fires.
inferCategoryFromQuery(value) ==
    LET query == normalizeWindowQuery(value)
    IN IF query = <<>> THEN "null"
       ELSE IF hasAnyWord(query, {<<"k", "i", "d">>, <<"k", "i", "d", "s">>, <<"c", "h", "i", "l", "d", "r", "e", "n">>, <<"c", "h", "i", "l", "d">>, <<"b", "a", "b", "y">>,
                                  <<"b", "a", "b", "i", "e", "s">>, <<"f", "a", "m", "i", "l", "y">>, <<"t", "o", "d", "d", "l", "e", "r">>, <<"t", "o", "d", "d", "l", "e", "r", "s">>})
       THEN "Kids"
       ELSE IF hasAnyWord(query, {<<"m", "u", "s", "i", "c">>, <<"l", "i", "v", "e">>, <<"d", "j">>, <<"c", "o", "n", "c", "e", "r", "t">>, <<"g", "i", "g">>})
       THEN "Music"
       ELSE IF hasAnyWord(query, {<<"f", "o", "o", "d">>, <<"e", "a", "t">>, <<"d", "i", "n", "n", "e", "r">>, <<"l", "u", "n", "c", "h">>, <<"c", "a", "f", "e">>,
                                  <<"r", "e", "s", "t", "a", "u", "r", "a", "n", "t">>})
       THEN "Food"
       ELSE IF hasAnyWord(query, {<<"c", "o", "m", "e", "d", "y">>, <<"s", "t", "a", "n", "d", " ", "u", "p">>, <<"s", "t", "a", "n", "d", "u", "p">>, <<"c", "o", "m", "i", "c">>})
       THEN "Comedy"
       ELSE IF hasAnyWord(query, {<<"a", "r", "t">>, <<"g", "a", "l", "l", "e", "r", "y">>, <<"m", "u", "s", "e", "u", "m">>, <<"e", "x", "h", "i", "b", "i", "t">>})
       THEN "Art"
       ELSE "null"

windowHintForApi(timeWindow) ==
    IF timeWindow = "now" THEN <<"h", "a", "p", "p", "e", "n", "i", "n", "g", " ", "n", "o", "w">>
    ELSE IF timeWindow = "today" THEN <<"t", "o", "d", "a", "y">>
    ELSE IF timeWindow = "today_tomorrow" THEN <<"t", "o", "d", "a", "y", " ", "a", "n", "d", " ", "t", "o", "m", "o", "r", "r", "o", "w">>
    ELSE IF timeWindow = "next_3_days" THEN <<"n", "e", "x", "t", " ", "3", " ", "d", "a", "y", "s">>
    ELSE IF timeWindow = "next_7_days" THEN <<"n", "e", "x", "t", " ", "7", " ", "d", "a", "y", "s">>
    ELSE IF timeWindow = "this_week" THEN <<"t", "h", "i", "s", " ", "w", "e", "e", "k">>
    ELSE IF timeWindow = "all_upcoming" THEN <<"a", "l", "l", " ", "u", "p", "c", "o", "m", "i", "n", "g">>
    ELSE <<"n", "e", "x", "t", " ", "7", " ", "d", "a", "y", "s">>

\* A query that gets the hint even when the text carries time intent.
queryForApi_AlwaysHint(debouncedSearchText, selectedTimeWindow) ==
    LET trimmed == trim(debouncedSearchText)
        hint == windowHintForApi(selectedTimeWindow)
    IN IF trimmed = <<>> THEN <<"w", "h", "a", "t", "'", "s", " ", "o", "n", " ">> \o hint
       ELSE trim(trimmed \o <<" ">> \o hint)

queryForApi(debouncedSearchText, selectedTimeWindow) ==
    LET trimmed == trim(debouncedSearchText)
        hint == windowHintForApi(selectedTimeWindow)
    IN IF trimmed = <<>> THEN <<"w", "h", "a", "t", "'", "s", " ", "o", "n", " ">> \o hint
       ELSE IF hasExplicitTimeIntent(trimmed) THEN trimmed
       ELSE trim(trimmed \o <<" ">> \o hint)

\* The timeout of useDebouncedValue.
NoTimer == [armed |-> FALSE, value |-> <<>>, remaining |-> 0]

\* An effect run that leaves the pending timeout in place.
restartTimer_KeepsPending(timer, value) ==
    IF timer.armed THEN timer
    ELSE [armed |-> TRUE, value |-> value, remaining |-> DEBOUNCE_WAIT_MS]

\* The effect of useDebouncedValue on a new value: its cleanup clears the
\* pending timeout, then a new timeout is set for the whole wait.
restartTimer(timer, value) ==
    [armed |-> TRUE, value |-> value, remaining |-> DEBOUNCE_WAIT_MS]

\* The inference effects: what each would set, given what it reads.
timeWindowEffect(debouncedSearchText, manualTimeWindowQuery, selectedTimeWindow) ==
    LET inferred == inferTimeWindowFromQuery(debouncedSearchText)
    IN IF manualTimeWindowQuery = normalizeWindowQuery(debouncedSearchText)
       THEN selectedTimeWindow
       ELSE IF inferred = "null" \/ inferred = selectedTimeWindow THEN selectedTimeWindow
       ELSE inferred

categoryEffect(debouncedSearchText, manualCategoryQuery, selectedCategory) ==
    LET inferred == inferCategoryFromQuery(debouncedSearchText)
    IN IF manualCategoryQuery = normalizeWindowQuery(debouncedSearchText)
       THEN selectedCategory
       ELSE IF inferred = "null" \/ inferred = selectedCategory THEN selectedCategory
       ELSE inferred

NoneCancelled == [set |-> FALSE, value |-> <<>>]
NotPicked == [set |-> FALSE, text |-> <<>>, value |-> "none"]
Picked(text, value) == [set |-> TRUE, text |-> text, value |-> value]

\* The texts the user types, the windows and categories the actions offer,
\* and the category options a displayed response gives.
SearchTexts == {<<>>, <<"T", "o", "d", "a", "y", "!">>, <<"g", "i", "g">>}
PickableWindows == {"now", "today"}
PickableCategories == {"Kids", "Music"}
CategoryOptionSets == {{CATEGORY_ALL}, {CATEGORY_ALL, "Kids", "Music"}}

\* An effect whose dependencies changed has not run yet; React runs it before
\* it handles the next event.
TimeWindowEffectPending ==
    timeWindowEffect(ssDebounced, ssManualTimeWindowQuery, ssSelectedTimeWindow)
        # ssSelectedTimeWindow
CategoryEffectPending ==
    categoryEffect(ssDebounced, ssManualCategoryQuery, ssSelectedCategory) # ssSelectedCategory
CategoryResetPending == ssSelectedCategory \notin ssCategoryOptions
EffectPending ==
    TimeWindowEffectPending \/ CategoryEffectPending \/ CategoryResetPending

SsInit ==
    /\ ssSearchText = <<>>
    /\ ssDebounced = <<>>
    /\ ssTimer = restartTimer(NoTimer, <<>>)
    /\ ssRawAge = 0
    /\ ssSelectedTimeWindow = DEFAULT_TIME_WINDOW
    /\ ssManualTimeWindowQuery = <<>>
    /\ ssSelectedCategory = CATEGORY_ALL
    /\ ssManualCategoryQuery = <<>>
    /\ ssCategoryOptions = {CATEGORY_ALL}
    /\ ssQueryForApi = queryForApi(<<>>, DEFAULT_TIME_WINDOW)
    /\ ssPickedWindow = NotPicked
    /\ ssPickedCategory = NotPicked
    /\ ssCancelled = NoneCancelled
    /\ EvIdle
    /\ NzIdle
    /\ RsIdle
    /\ AkStart
    /\ TgIdle
    /\ SlIdle
    /\ ZfIdle
    /\ AqIdle
    /\ IqIdle
    /\ HzIdle
    /\ RtIdle
    /\ TmIdle
    /\ FxIdle

\* onSearchTextChange={setSearchText}, and the effect of useDebouncedValue.
SsType(text) ==
    /\ ~EffectPending
    /\ text # ssSearchText
    /\ ssSearchText' = text
    /\ ssTimer' = restartTimer(ssTimer, text)
    /\ ssRawAge' = 0
    /\ ssCancelled' = IF ssTimer.armed THEN [set |-> TRUE, value |-> ssTimer.value]
                      ELSE NoneCancelled
    /\ ssPickedWindow' = NotPicked
    /\ ssPickedCategory' = NotPicked
    /\ UNCHANGED <<ssDebounced, ssSelectedTimeWindow, ssManualTimeWindowQuery,
                   ssSelectedCategory, ssManualCategoryQuery, ssCategoryOptions,
                   ssQueryForApi>>
    /\ UNCHANGED ssOthers

\* The clock moves by one step; a timeout that is due may still be waiting
\* for its turn.
SsTick ==
    /\ ~EffectPending
    /\ ssRawAge < DEBOUNCE_WAIT_MS \/ (ssTimer.armed /\ ssTimer.remaining > 0)
    /\ ssRawAge' = IF ssRawAge + TickMs > DEBOUNCE_WAIT_MS THEN DEBOUNCE_WAIT_MS
                   ELSE ssRawAge + TickMs
    /\ ssTimer' = IF ssTimer.armed /\ ssTimer.remaining > 0
                  THEN [ssTimer EXCEPT !.remaining =
                            IF @ > TickMs THEN @ - TickMs ELSE 0]
                  ELSE ssTimer
    /\ UNCHANGED <<ssSearchText, ssDebounced, ssSelectedTimeWindow, ssManualTimeWindowQuery,
                   ssSelectedCategory, ssManualCategoryQuery, ssCategoryOptions,
                   ssQueryForApi, ssPickedWindow, ssPickedCategory>>
    /\ UNCHANGED ssCancelled
    /\ UNCHANGED ssOthers

\* The timeout fires: setDebounced(value), and queryForApi is computed anew.
SsDebounceFires ==
    /\ ~EffectPending
    /\ ssTimer.armed
    /\ ssTimer.remaining = 0
    /\ ssDebounced' = ssTimer.value
    /\ ssTimer' = NoTimer
    /\ ssQueryForApi' = queryForApi(ssTimer.value, ssSelectedTimeWindow)
    /\ UNCHANGED <<ssSearchText, ssRawAge, ssSelectedTimeWindow, ssManualTimeWindowQuery,
                   ssSelectedCategory, ssManualCategoryQuery, ssCategoryOptions,
                   ssPickedWindow, ssPickedCategory>>
    /\ UNCHANGED ssCancelled
    /\ UNCHANGED ssOthers

SsApplyTimeWindow(timeWindow) ==
    /\ ~EffectPending
    /\ ssManualTimeWindowQuery' = normalizeWindowQuery(ssDebounced)
    /\ ssSelectedTimeWindow' = timeWindow
    /\ ssQueryForApi' = queryForApi(ssDebounced, timeWindow)
    /\ ssPickedWindow' = Picked(ssSearchText, timeWindow)
    /\ UNCHANGED <<ssSearchText, ssDebounced, ssTimer, ssRawAge, ssSelectedCategory,
                   ssManualCategoryQuery, ssCategoryOptions, ssPickedCategory>>
    /\ UNCHANGED ssCancelled
    /\ UNCHANGED ssOthers

SsApplyCategory(category) ==
    /\ ~EffectPending
    /\ ssManualCategoryQuery' = normalizeWindowQuery(ssDebounced)
    /\ ssSelectedCategory' = category
    /\ ssPickedCategory' = Picked(ssSearchText, category)
    /\ UNCHANGED <<ssSearchText, ssDebounced, ssTimer, ssRawAge, ssSelectedTimeWindow,
                   ssManualTimeWindowQuery, ssCategoryOptions, ssQueryForApi,
                   ssPickedWindow>>
    /\ UNCHANGED ssCancelled
    /\ UNCHANGED ssOthers

\* The response on display changes, and with it the category options.
SsResponseShown(options) ==
    /\ ~EffectPending
    /\ options # ssCategoryOptions
    /\ ssCategoryOptions' = options
    /\ UNCHANGED <<ssSearchText, ssDebounced, ssTimer, ssRawAge, ssSelectedTimeWindow,
                   ssManualTimeWindowQuery, ssSelectedCategory, ssManualCategoryQuery,
                   ssQueryForApi, ssPickedWindow, ssPickedCategory>>
    /\ UNCHANGED ssCancelled
    /\ UNCHANGED ssOthers

\* The effect that infers the time window from the debounced text.
SsInferTimeWindow ==
    /\ TimeWindowEffectPending
    /\ ssSelectedTimeWindow' =
          timeWindowEffect(ssDebounced, ssManualTimeWindowQuery, ssSelectedTimeWindow)
    /\ ssQueryForApi' =
          queryForApi(ssDebounced,
                      timeWindowEffect(ssDebounced, ssManualTimeWindowQuery,
                                       ssSelectedTimeWindow))
    /\ UNCHANGED <<ssSearchText, ssDebounced, ssTimer, ssRawAge, ssManualTimeWindowQuery,
                   ssSelectedCategory, ssManualCategoryQuery, ssCategoryOptions,
                   ssPickedWindow, ssPickedCategory>>
    /\ UNCHANGED ssCancelled
    /\ UNCHANGED ssOthers

\* The effect that infers the category from the debounced text.
SsInferCategory ==
    /\ CategoryEffectPending
    /\ ssSelectedCategory' =
          categoryEffect(ssDebounced, ssManualCategoryQuery, ssSelectedCategory)
    /\ UNCHANGED <<ssSearchText, ssDebounced, ssTimer, ssRawAge, ssSelectedTimeWindow,
                   ssManualTimeWindowQuery, ssManualCategoryQuery, ssCategoryOptions,
                   ssQueryForApi, ssPickedWindow, ssPickedCategory>>
    /\ UNCHANGED ssCancelled
    /\ UNCHANGED ssOthers

\* The effect that falls back to "All" when the selected category is not
\* among the options; the user's pick no longer stands.
SsResetCategory ==
    /\ CategoryResetPending
    /\ ssSelectedCategory' = CATEGORY_ALL
    /\ ssPickedCategory' = NotPicked
    /\ UNCHANGED <<ssSearchText, ssDebounced, ssTimer, ssRawAge, ssSelectedTimeWindow,
                   ssManualTimeWindowQuery, ssManualCategoryQuery, ssCategoryOptions,
                   ssQueryForApi, ssPickedWindow>>
    /\ UNCHANGED ssCancelled
    /\ UNCHANGED ssOthers

SsNext ==
    \/ \E text \in SearchTexts : SsType(text)
    \/ SsTick
    \/ SsDebounceFires
    \/ \E timeWindow \in PickableWindows : SsApplyTimeWindow(timeWindow)
    \/ \E category \in PickableCategories : SsApplyCategory(category)
    \/ \E options \in CategoryOptionSets : SsResponseShown(options)
    \/ SsInferTimeWindow
    \/ SsInferCategory
    \/ SsResetCategory

SpecSearch == SsInit /\ [][SsNext]_vars

----------------------------------------------------------------------------
(* Properties of the search bar *)

\* C19: the debounce is trailing-edge: the debounced text takes a value only
\* after the raw text has had that value without interruption for the whole
\* wait; every change of the raw text cancels the pending timer and starts a
\* new one for the whole wait; so the backend query never changes to one made
\* from a text that was replaced before the wait was over.
C19_DebounceIsTrailingEdge ==
    [][/\ ssDebounced' # ssDebounced =>
            /\ ssDebounced' = ssSearchText
            /\ ssRawAge >= DEBOUNCE_WAIT_MS
       /\ ssSearchText' # ssSearchText =>
            ssTimer' = [armed |-> TRUE, value |-> ssSearchText',
                        remaining |-> DEBOUNCE_WAIT_MS]
       /\ ssQueryForApi' # ssQueryForApi =>
            \/ ssSelectedTimeWindow' # ssSelectedTimeWindow
            \/ /\ ssDebounced' = ssSearchText
               /\ ssRawAge >= DEBOUNCE_WAIT_MS]_vars

\* The user typed one text, replaced it before the wait was over, and the
\* debounced text has taken the second text without ever taking the first.
C19_Witness ==
    /\ ssCancelled.set
    /\ ssCancelled.value # <<>>
    /\ ssCancelled.value # ssSearchText
    /\ ssDebounced = ssSearchText
    /\ ssDebounced # <<>>
    /\ ssRawAge = DEBOUNCE_WAIT_MS
    /\ ~ssTimer.armed

\* C20: after the user picks a time window (respectively a category) for the
\* search text shown at that moment, inference does not overwrite the pick
\* while the text is still that text.
C20_InferenceKeepsManualSelection ==
    /\ (ssPickedWindow.set /\ ssPickedWindow.text = ssSearchText) =>
            ssSelectedTimeWindow = ssPickedWindow.value
    /\ (ssPickedCategory.set /\ ssPickedCategory.text = ssSearchText) =>
            ssSelectedCategory = ssPickedCategory.value

----------------------------------------------------------------------------
(* The query functions of the ask command, applied to search texts *)

MaxPhrases == 2

\* The phrases search texts are made of, and texts with capitals,
\* punctuation and runs of whitespace.
Phrases ==
    {<<"n", "o", "w">>, <<"r", "i", "g", "h", "t", " ", "n", "o", "w">>, <<"h", "a", "p", "p", "e", "n", "i", "n", "g", " ", "n", "o", "w">>, <<"o", "n", " ", "n", "o", "w">>, <<"l", "i", "v", "e", " ", "n", "o", "w">>, <<"m", "u", "s", "i", "c">>,
     <<"a", "l", "l", " ", "u", "p", "c", "o", "m", "i", "n", "g">>, <<"t", "o", "m", "o", "r", "r", "o", "w">>, <<"t", "h", "i", "s", " ", "w", "e", "e", "k", "e", "n", "d">>, <<"t", "h", "i", "s", " ", "w", "e", "e", "k">>, <<"n", "e", "x", "t", " ", "7", " ", "d", "a", "y", "s">>,
     <<"n", "e", "x", "t", " ", "w", "e", "e", "k">>, <<"n", "e", "x", "t", " ", "3", " ", "d", "a", "y", "s">>, <<"t", "o", "d", "a", "y">>, <<"t", "o", "n", "i", "g", "h", "t">>}

RECURSIVE joinPhrases(_)
joinPhrases(phrases) ==
    IF phrases = <<>> THEN <<>>
    ELSE IF Len(phrases) = 1 THEN phrases[1]
    ELSE phrases[1] \o <<" ">> \o joinPhrases(Tail(phrases))

SpecialTexts ==
    {<<"t", "o", "d", "a", "y", " ", "a", "n", "d", " ", "t", "o", "m", "o", "r", "r", "o", "w">>, <<"M", "u", "s", "i", "c", " ", "N", "O", "W", "!">>, <<"l", "i", "v", "e", " ", " ", "m", "u", "s", "i", "c">>, <<" ", " ", " ">>, <<" ", "T", "o", "n", "i", "g", "h", "t", "?", " ">>,
     <<"k", "i", "d", "s", " ", "s", "n", "o", "w">>, <<"j", "a", "z", "z", "\t", "g", "i", "g">>}

QueryTexts == {joinPhrases(phrases) : phrases \in SeqsUpTo(Phrases, MaxPhrases)} \cup SpecialTexts

NotBuilt == [built |-> FALSE, query |-> <<>>]

SelectedWindows == {"today_tomorrow", "this_week", "all_upcoming"}

IqInit ==
    /\ iqText \in QueryTexts
    /\ iqWindow \in SelectedWindows
    /\ iqInferred = "none"
    /\ iqCategory = "none"
    /\ iqSent = NotBuilt
    /\ EvIdle
    /\ NzIdle
    /\ RsIdle
    /\ AkStart
    /\ TgIdle
    /\ SlIdle
    /\ ZfIdle
    /\ AqIdle
    /\ SsIdle
    /\ HzIdle
    /\ RtIdle
    /\ TmIdle
    /\ FxIdle

\* const inferred = inferTimeWindowFromQuery(debouncedSearchText)
IqInferTimeWindow ==
    /\ iqInferred = "none"
    /\ iqInferred' = inferTimeWindowFromQuery(iqText)
    /\ UNCHANGED <<iqText, iqWindow, iqCategory, iqSent>>
    /\ UNCHANGED iqOthers

\* const inferred = inferCategoryFromQuery(debouncedSearchText)
IqInferCategory ==
    /\ iqCategory = "none"
    /\ iqCategory' = inferCategoryFromQuery(iqText)
    /\ UNCHANGED <<iqText, iqWindow, iqInferred, iqSent>>
    /\ UNCHANGED iqOthers

\* askTownspot({query: queryForApi, ...}) puts sanitizeQuery(payload.query)
\* into the request body.
IqBuildQuery ==
    /\ iqSent = NotBuilt
    /\ iqSent' = [built |-> TRUE, query |-> sanitizeQuery(queryForApi(iqText, iqWindow))]
    /\ UNCHANGED <<iqText, iqWindow, iqInferred, iqCategory>>
    /\ UNCHANGED iqOthers

IqNext ==
    \/ IqInferTimeWindow
    \/ IqInferCategory
    \/ IqBuildQuery

SpecQuery == IqInit /\ [][IqNext]_vars

----------------------------------------------------------------------------
(* Properties of the query functions *)

\* The rules of the time-window inference in their stated order: the phrases
\* of each rule and the window it gives. The first rule is the now-phrases.
StatedWindowRules ==
    <<[phrases |-> {}, window |-> "now"],
      [phrases |-> {<<"a", "l", "l", " ", "u", "p", "c", "o", "m", "i", "n", "g">>}, window |-> "all_upcoming"],
      [phrases |-> {<<"t", "o", "m", "o", "r", "r", "o", "w">>}, window |-> "today_tomorrow"],
      [phrases |-> {<<"t", "h", "i", "s", " ", "w", "e", "e", "k", "e", "n", "d">>}, window |-> "next_3_days"],
      [phrases |-> {<<"t", "h", "i", "s", " ", "w", "e", "e", "k">>}, window |-> "this_week"],
      [phrases |-> {<<"n", "e", "x", "t", " ", "7", " ", "d", "a", "y", "s">>, <<"n", "e", "x", "t", " ", "w", "e", "e", "k">>}, window |-> "next_7_days"],
      [phrases |-> {<<"n", "e", "x", "t", " ", "3", " ", "d", "a", "y", "s">>}, window |-> "next_3_days"],
      [phrases |-> {<<"t", "o", "d", "a", "y">>, <<"t", "o", "n", "i", "g", "h", "t">>}, window |-> "today"]>>

RuleMatches(k, query) ==
    IF k = 1 THEN hasNowPhrase(query)
    ELSE \E phrase \in StatedWindowRules[k].phrases : includes(query, phrase)

MatchingRules(query) == {k \in 1..Len(StatedWindowRules) : RuleMatches(k, query)}

FirstRuleWindow(query) ==
    IF MatchingRules(query) = {} THEN "null"
    ELSE StatedWindowRules[CHOOSE k \in MatchingRules(query) :
                               \A other \in MatchingRules(query) : k <= other].window

\* C21: inferTimeWindowFromQuery gives the window of the first rule, in the
\* stated order, that matches the normalized query, and null when none does;
\* a query with "this weekend" and no earlier rule is next_3_days and never
\* this_week, and "today and tomorrow" is today_tomorrow.
C21_FirstMatchingRuleDecides ==
    iqInferred # "none" =>
        LET query == normalizeWindowQuery(iqText)
        IN /\ iqInferred = FirstRuleWindow(query)
           /\ includes(query, <<"t", "h", "i", "s", " ", "w", "e", "e", "k", "e", "n", "d">>) => iqInferred # "this_week"
           /\ (includes(query, <<"t", "h", "i", "s", " ", "w", "e", "e", "k", "e", "n", "d">>) /\ MatchingRules(query) \cap 1..3 = {})
                  => iqInferred = "next_3_days"
           /\ query = <<"t", "o", "d", "a", "y", " ", "a", "n", "d", " ", "t", "o", "m", "o", "r", "r", "o", "w">> => iqInferred = "today_tomorrow"

\* A text that matches both the "this weekend" rule and the "this week" rule
\* (and the "today" rule) has been classified.
C21_Witness ==
    /\ iqText = <<"t", "h", "i", "s", " ", "w", "e", "e", "k", "e", "n", "d", " ", "t", "o", "d", "a", "y">>
    /\ iqInferred = "next_3_days"

\* C22: every query whose normalized text contains the keyword "now" is
\* classified as window now, wherever the keyword stands.
C22_NowKeywordAnywhereGivesNow ==
    (iqInferred # "none" /\ hasWord(normalizeWindowQuery(iqText), <<"n", "o", "w">>))
        => iqInferred = "now"

\* The backend query as stated, for the search text as it is taken.
StatedBackendQuery(taken, timeWindow) ==
    IF taken = <<>> THEN <<"w", "h", "a", "t", "'", "s", " ", "o", "n", " ">> \o windowHintForApi(timeWindow)
    ELSE IF hasExplicitTimeIntent(taken) THEN taken
    ELSE taken \o <<" ">> \o windowHintForApi(timeWindow)

\* C23 as stated: the query in the request body is never empty; it is the
\* default phrase and the hint for a blank text, the trimmed text alone when
\* it carries time intent, and the trimmed text followed by the hint
\* otherwise.
C23_QueryIsTrimmedTextWithHint ==
    iqSent.built =>
        /\ iqSent.query # <<>>
        /\ iqSent.query = StatedBackendQuery(trim(iqText), iqWindow)

\* The text with every run of whitespace turned into one space.
SingleSpaced(s) ==
    LET spaced == [i \in 1..Len(s) |-> IF IsWhitespace(s[i]) THEN " " ELSE s[i]]
    IN Pick(spaced, {i \in 1..Len(s) : ~(spaced[i] = " " /\ i > 1 /\ spaced[i - 1] = " ")})

\* C23: the query in the request body is never empty; it is made as stated
\* from the trimmed text with every run of whitespace inside it turned into
\* a single space.
C23_QueryIsSingleSpacedTextWithHint ==
    iqSent.built =>
        /\ iqSent.query # <<>>
        /\ iqSent.query = StatedBackendQuery(SingleSpaced(trim(iqText)), iqWindow)

\* A text with a run of two spaces inside it has been sent.
C23_Witness ==
    /\ iqText = <<"l", "i", "v", "e", " ", " ", "m", "u", "s", "i", "c">>
    /\ iqWindow = "this_week"
    /\ iqSent = [built |-> TRUE, query |-> <<"l", "i", "v", "e", " ", "m", "u", "s", "i", "c", " ", "t", "h", "i", "s", " ", "w", "e", "e", "k">>]

----------------------------------------------------------------------------
(* Properties of the displayed response and of failed queries *)

\* Request i settles in this step, while its effect run is the current one.
Settles(i, status) ==
    /\ i \in 1..Len(akRequests)
    /\ akRequests[i].status = "pending"
    /\ ~akRequests[i].cancelled
    /\ akRequests'[i].status = status

\* C24: the response on display, when there is one, has the slug of the
\* active town; it is the response applied last when that one is of the
\* active town and the cached response of the active town otherwise; a
\* change to a town that has a cached response shows a response at once;
\* and a response applied for the active town is the one on display from
\* then on, and the cached one.
C24_DisplayIsOfActiveTown ==
    [][/\ displayResponseForActiveTown' # NoResponse =>
            /\ displayResponseForActiveTown'.townSlug = akTown'
            /\ \/ displayResponseForActiveTown' = akResponse'
               \/ /\ akTown' # ""
                  /\ akResponse'.townSlug # akTown'
                  /\ displayResponseForActiveTown' = akCache'[akTown']
       /\ (akTown' # akTown /\ akTown' # "" /\ akCache[akTown'] # NoResponse) =>
            /\ displayResponseForActiveTown' # NoResponse
            /\ Len(akRequests') = Len(akRequests) + 1
            /\ akRequests'[Len(akRequests')].status = "pending"
       /\ \A i \in 1..Len(akRequests) :
            (/\ Settles(i, "resolved")
             /\ akTown # ""
             /\ akResponse'.townSlug = akTown) =>
                /\ displayResponseForActiveTown' = akResponse'
                /\ akResponse'.request = i
                /\ akCache'[akTown] = akResponse']_vars

\* The latest applied response is of town a, the user has switched back to
\* town b, whose request is still pending, and the cached response of b is
\* on display.
C24_Witness ==
    /\ akTown = "b"
    /\ akResponse.townSlug = "a"
    /\ akLoading
    /\ akRequests[Len(akRequests)].status = "pending"
    /\ displayResponseForActiveTown = akCache["b"]
    /\ akCache["b"] # NoResponse

\* C30: a failure of the latest request is caught: errorMessage becomes a
\* non-empty message and loading false; afterwards a change of the query,
\* the town or the preferences starts a new request, which clears
\* errorMessage when it starts; and a result that is applied leaves no error
\* message and loading false.
C30_FailureIsCaughtAndRecoverable ==
    [][/\ \A i \in 1..Len(akRequests) :
            Settles(i, "rejected") =>
                /\ akError' # ""
                /\ ~akLoading'
                /\ (akTown # "" /\ Len(akRequests) < MaxRequests) =>
                        (ENABLED (\E query \in Queries : AkQueryChanged(query)))'
       /\ Len(akRequests') > Len(akRequests) =>
            /\ akError' = ""
            /\ akLoading'
            /\ akRequests'[Len(akRequests')].status = "pending"
       /\ \A i \in 1..Len(akRequests) :
            Settles(i, "resolved") =>
                /\ akResponse'.request = i
                /\ akError' = ""
                /\ ~akLoading']_vars

\* A request succeeded, the request made after it has failed, and its
\* message is shown with loading off and the earlier response still there.
C30_Witness ==
    \E i, j \in 1..Len(akRequests) :
        /\ i < j
        /\ j = Len(akRequests)
        /\ akRequests[i].status = "resolved"
        /\ akResponse.request = i
        /\ akRequests[j].status = "rejected"
        /\ ~akRequests[j].cancelled
        /\ akError = "Could not reach TownSpot at http://h/api/raycast/ask."
        /\ ~akLoading

----------------------------------------------------------------------------
(* The hometown of the ask command: storage, directory, reconciliation *)

\* Zone ids are 0..MaxZoneId; a launch sends at most MaxQueries queries.
MaxZoneId == 2
MaxQueries == 2

ZoneIds == 0..MaxZoneId

\* Number(stored || ""): the id stored, and 0 when nothing is stored.
parseStored(stored) == IF stored = {} THEN {0} ELSE stored

\* selectedZone: the zone of the directory with the selected id, or with the
\* hometown id when no zone value is selected; {} for undefined.
selectedZone(selected, homeZoneId, zones) ==
    (IF selected # {} THEN selected ELSE homeZoneId) \cap zones

\* The reconciliation effect: the values of selectedTownValue, homeZoneId
\* and the storage after one run.
reconcile(selected, homeZoneId, zones, storage) ==
    IF selected # {}
    THEN [selected |-> selected \cap zones, homeZoneId |-> homeZoneId, storage |-> storage]
    ELSE IF homeZoneId # {}
    THEN IF homeZoneId \subseteq zones
         THEN [selected |-> homeZoneId, homeZoneId |-> homeZoneId, storage |-> storage]
         ELSE [selected |-> selected, homeZoneId |-> {}, storage |-> {}]
    ELSE [selected |-> selected, homeZoneId |-> homeZoneId, storage |-> storage]

\* What fetchActiveZones gives loadZones: a rejection, or the ids of the
\* zones of the directory.
DirectoryReplies ==
    {[ok |-> FALSE, ids |-> {}]} \cup {[ok |-> TRUE, ids |-> ids] : ids \in SUBSET ZoneIds}

ReconcilePending ==
    /\ ~hzHomeZoneLoading
    /\ ~hzZonesLoading
    /\ reconcile(hzSelected, hzHomeZoneId, hzZones, hzStorage)
          # [selected |-> hzSelected, homeZoneId |-> hzHomeZoneId, storage |-> hzStorage]

QueryEffectPending == selectedZone(hzSelected, hzHomeZoneId, hzZones) # hzQueryTown

HzInit ==
    /\ hzStorage \in {{}} \cup {{id} : id \in ZoneIds}
    /\ hzLaunchStorage = hzStorage
    /\ hzHomeZoneLoading = TRUE
    /\ hzZonesLoading = TRUE
    /\ hzZones = {}
    /\ hzZonesFailed = FALSE
    /\ hzHomeZoneId = {}
    /\ hzSelected = {}
    /\ hzQueryTown = {}
    /\ hzQueriesSent = 0
    /\ hzChosen = FALSE
    /\ EvIdle
    /\ NzIdle
    /\ RsIdle
    /\ AkStart
    /\ TgIdle
    /\ SlIdle
    /\ ZfIdle
    /\ AqIdle
    /\ SsIdle
    /\ IqIdle
    /\ RtIdle
    /\ TmIdle
    /\ FxIdle

\* loadHomeZone after its await of LocalStorage.getItem.
HzHomeZoneRead ==
    /\ hzHomeZoneLoading
    /\ ~QueryEffectPending
    /\ hzHomeZoneId' = parseStored(hzStorage)
    /\ hzSelected' = parseStored(hzStorage)
    /\ hzHomeZoneLoading' = FALSE
    /\ UNCHANGED <<hzStorage, hzZonesLoading, hzZones, hzZonesFailed, hzQueryTown,
                   hzQueriesSent, hzLaunchStorage, hzChosen>>
    /\ UNCHANGED hzOthers

\* loadZones after its await of fetchActiveZones.
HzZonesAnswer(reply) ==
    /\ hzZonesLoading
    /\ ~QueryEffectPending
    /\ hzZones' = reply.ids
    /\ hzZonesFailed' = ~reply.ok
    /\ hzZonesLoading' = FALSE
    /\ UNCHANGED <<hzStorage, hzHomeZoneLoading, hzHomeZoneId, hzSelected, hzQueryTown,
                   hzQueriesSent, hzLaunchStorage, hzChosen>>
    /\ UNCHANGED hzOthers

\* The reconciliation effect, run because one of its dependencies changed.
HzReconcile ==
    /\ ReconcilePending
    /\ hzSelected' = reconcile(hzSelected, hzHomeZoneId, hzZones, hzStorage).selected
    /\ hzHomeZoneId' = reconcile(hzSelected, hzHomeZoneId, hzZones, hzStorage).homeZoneId
    /\ hzStorage' = reconcile(hzSelected, hzHomeZoneId, hzZones, hzStorage).storage
    /\ UNCHANGED <<hzHomeZoneLoading, hzZonesLoading, hzZones, hzZonesFailed, hzQueryTown,
                   hzQueriesSent, hzLaunchStorage, hzChosen>>
    /\ UNCHANGED hzOthers

\* The query effect, run because effectiveTownSlug changed: it calls
\* askTownspot when there is a selected zone.
HzQueryEffect ==
    /\ QueryEffectPending
    /\ hzQueryTown' = selectedZone(hzSelected, hzHomeZoneId, hzZones)
    /\ IF selectedZone(hzSelected, hzHomeZoneId, hzZones) # {}
       THEN /\ hzQueriesSent < MaxQueries
            /\ hzQueriesSent' = hzQueriesSent + 1
       ELSE hzQueriesSent' = hzQueriesSent
    /\ UNCHANGED <<hzStorage, hzHomeZoneLoading, hzZonesLoading, hzZones, hzZonesFailed,
                   hzHomeZoneId, hzSelected, hzLaunchStorage, hzChosen>>
    /\ UNCHANGED hzOthers

\* onHomeZoneChange with the value of a zone of the directory: setHomeZone.
HzSetHomeZone(id) ==
    /\ ~ReconcilePending
    /\ ~QueryEffectPending
    /\ id \in hzZones
    /\ hzSelected' = {id}
    /\ hzHomeZoneId' = {id}
    /\ hzStorage' = {id}
    /\ hzChosen' = TRUE
    /\ UNCHANGED <<hzHomeZoneLoading, hzZonesLoading, hzZones, hzZonesFailed, hzQueryTown,
                   hzQueriesSent, hzLaunchStorage>>
    /\ UNCHANGED hzOthers

\* The command is closed and launched again: the state is new, the storage
\* is what it was.
HzRelaunch ==
    /\ ~ReconcilePending
    /\ ~QueryEffectPending
    /\ ~hzHomeZoneLoading
    /\ ~hzZonesLoading
    /\ hzLaunchStorage' = hzStorage
    /\ hzHomeZoneLoading' = TRUE
    /\ hzZonesLoading' = TRUE
    /\ hzZones' = {}
    /\ hzZonesFailed' = FALSE
    /\ hzHomeZoneId' = {}
    /\ hzSelected' = {}
    /\ hzQueryTown' = {}
    /\ hzQueriesSent' = 0
    /\ hzChosen' = FALSE
    /\ UNCHANGED hzStorage
    /\ UNCHANGED hzOthers

HzNext ==
    \/ HzHomeZoneRead
    \/ \E reply \in DirectoryReplies : HzZonesAnswer(reply)
    \/ HzReconcile
    \/ HzQueryEffect
    \/ \E id \in ZoneIds : HzSetHomeZone(id)
    \/ HzRelaunch

SpecHometown == HzInit /\ [][HzNext]_vars

----------------------------------------------------------------------------
(* Properties of the hometown *)

\* C25: the stored hometown id is removed only when the zone directory was
\* fetched successfully and has no zone with that id; a launch on which the
\* fetch fails leaves the stored hometown as it is.
C25_HometownRemovedOnlyWhenMissingFromDirectory ==
    [][/\ (hzStorage # {} /\ hzStorage' = {}) =>
            /\ ~hzZonesLoading
            /\ ~hzZonesFailed
            /\ hzStorage \cap hzZones = {}
       /\ hzZonesFailed' => hzStorage' = hzLaunchStorage']_vars

\* C26: on a launch that found no hometown in the storage, as long as the
\* user has not chosen a zone, no zone is selected and no query is sent,
\* whatever ids the directory has.
C26_NoQueryBeforeHometownChosen ==
    (hzLaunchStorage = {} /\ ~hzChosen) =>
        /\ hzQueriesSent = 0
        /\ selectedZone(hzSelected, hzHomeZoneId, hzZones) = {}

\* C27: for the windows today, today_tomorrow, next_3_days and next_7_days
\* the allowed date keys are exactly the 1, 2, 3 and 7 consecutive calendar
\* days from today in the timezone, and the result is the upcoming events
\* whose start falls on one of those days.
C27_AllowedKeysAreConsecutiveDays ==
    (/\ evPc = "filtered"
     /\ evWindow \in {"today", "today_tomorrow", "next_3_days", "next_7_days"}
     /\ ~evThrew) =>
        LET today == formatDateKey(evNow, evTz)
            days == IF evWindow = "today" THEN 1
                    ELSE IF evWindow = "today_tomorrow" THEN 2
                    ELSE IF evWindow = "next_3_days" THEN 3
                    ELSE 7
            Kept(event) ==
                /\ StartParses(event)
                /\ StatedEndMs(event) > evNowUpcoming
                /\ formatDateKey(event.startTime.ms, evTz) \in today..(today + days - 1)
        IN /\ evAllowed = today..(today + days - 1)
           /\ evResult = SelectSeq(evEvents, Kept)

----------------------------------------------------------------------------
(* relativeStartTag *)

\* if (minutesUntilStart <= 0 || minutesUntilStart > 180) return null
TAG_LIMIT_MINUTES == 180

\* The tags: "NOW", "in Nm" and null.
NowTag == [kind |-> "NOW", minutes |-> 0]
InTag(minutes) == [kind |-> "in", minutes |-> minutes]
NullTag == [kind |-> "null", minutes |-> 0]

\* Math.ceil(a / b) for b > 0.
ceilDiv(a, b) == IF a % b = 0 THEN a \div b ELSE (a \div b) + 1

\* relativeStartTag with the minutes rounded down.
relativeStartTag_RoundsDown(event, nowMs) ==
    LET window == getEventWindowMs(event)
        minutesUntilStart == (window.startMs - nowMs) \div MinuteMs
    IN IF isEventLiveNow(event, nowMs) THEN NowTag
       ELSE IF ~window.ok THEN NullTag
       ELSE IF window.startMs <= nowMs THEN NullTag
       ELSE IF minutesUntilStart <= 0 \/ minutesUntilStart > TAG_LIMIT_MINUTES THEN NullTag
       ELSE InTag(minutesUntilStart)

relativeStartTag(event, nowMs) ==
    LET window == getEventWindowMs(event)
        minutesUntilStart == ceilDiv(window.startMs - nowMs, MinuteMs)
    IN IF isEventLiveNow(event, nowMs) THEN NowTag
       ELSE IF ~window.ok THEN NullTag
       ELSE IF window.startMs <= nowMs THEN NullTag
       ELSE IF minutesUntilStart <= 0 \/ minutesUntilStart > TAG_LIMIT_MINUTES THEN NullTag
       ELSE InTag(minutesUntilStart)

\* Clock readings, and events that start at distances from the reading
\* around every limit of the tag, with no end, an end after half an hour,
\* and an end that does not parse.
TagNows == {At(1, 12, 0), At(1, 12, 0) + 30 * 1000}

TagDistances ==
    {-3 * HourMs, -2 * HourMs - 1, -2 * HourMs, -2 * HourMs + 1, -30 * MinuteMs,
     -30 * MinuteMs + 1, -1, 0, 1, MinuteMs - 1, MinuteMs, MinuteMs + 1,
     90 * MinuteMs, 179 * MinuteMs + 1, 180 * MinuteMs - 1, 180 * MinuteMs,
     180 * MinuteMs + 1, 181 * MinuteMs, DayMs}

TagEvents(nowMs) ==
    {Event("e", IsoTime(nowMs + distance), NullTime) : distance \in TagDistances}
    \cup {Event("e", IsoTime(nowMs + distance), IsoTime(nowMs + distance + 30 * MinuteMs)) :
            distance \in TagDistances}
    \cup {Event("e", IsoTime(nowMs + distance), InvalidTime) : distance \in TagDistances}
    \cup {Event("bad", InvalidTime, IsoTime(nowMs + HourMs)),
          Event("nostart", NullTime, NullTime)}

RtInit ==
    /\ rtNow \in TagNows
    /\ rtEvent \in TagEvents(rtNow)
    /\ rtPc = "input"
    /\ rtTag = NullTag
    /\ EvIdle
    /\ NzIdle
    /\ RsIdle
    /\ AkStart
    /\ TgIdle
    /\ SlIdle
    /\ ZfIdle
    /\ AqIdle
    /\ SsIdle
    /\ IqIdle
    /\ HzIdle
    /\ TmIdle
    /\ FxIdle

RtTag ==
    /\ rtPc = "input"
    /\ rtPc' = "tagged"
    /\ rtTag' = relativeStartTag(rtEvent, rtNow)
    /\ UNCHANGED <<rtEvent, rtNow>>
    /\ UNCHANGED rtOthers

RtNext == RtTag

SpecRelativeTag == RtInit /\ [][RtNext]_vars

----------------------------------------------------------------------------
(* Properties of relativeStartTag *)

\* C28: relativeStartTag gives "NOW" for an event that is live at t;
\* otherwise, when the start is strictly after t and N, the least number of
\* whole minutes that is not less than the time to the start, is at most 180,
\* it gives "in Nm", N being from 1 to 180; otherwise null: for an event that
\* has ended, a start more than 180 minutes away and a start that does not
\* parse.
C28_RelativeStartTag ==
    rtPc = "tagged" =>
        LET live == /\ StartParses(rtEvent)
                    /\ rtEvent.startTime.ms <= rtNow
                    /\ rtNow < StatedEndMs(rtEvent)
            ahead == rtEvent.startTime.ms - rtNow
            Covers(n) == n * 60000 >= ahead /\ (n - 1) * 60000 < ahead
        IN /\ live => rtTag = NowTag
           /\ (~live /\ StartParses(rtEvent) /\ ahead > 0 /\ \E n \in 1..180 : Covers(n)) =>
                \E n \in 1..180 : Covers(n) /\ rtTag = InTag(n)
           /\ (~live /\ ~(StartParses(rtEvent) /\ ahead > 0 /\ \E n \in 1..180 : Covers(n))) =>
                rtTag = NullTag
           /\ ~StartParses(rtEvent) => rtTag = NullTag
           /\ (StartParses(rtEvent) /\ StatedEndMs(rtEvent) <= rtNow) => rtTag = NullTag
           /\ (StartParses(rtEvent) /\ ahead > 180 * 60000) => rtTag = NullTag

\* An event that starts one millisecond more than 179 minutes after the
\* reading has been tagged "in 180m".
C28_Witness ==
    /\ rtPc = "tagged"
    /\ rtEvent.startTime.kind = "iso"
    /\ rtEvent.startTime.ms - rtNow = 179 * 60000 + 1
    /\ rtTag = InTag(180)

----------------------------------------------------------------------------
(* The whole contract of the tag splitter *)

\* The positions of the tags that fill no slot and are not blank, and for a
\* category the position of the tag it was taken from.
OtherTagPositions ==
    {i \in 1..Len(tgTags) : ~TagIsBlank(i) /\ i # FirstFrequencyTag /\ i # FirstPriceTag}

FirstSpelling(category) ==
    {i \in OtherTagPositions :
        /\ trim(tgTags[i]) = category
        /\ \A j \in OtherTagPositions :
              j < i => normalizeTag(tgTags[j]) # normalizeTag(tgTags[i])}

\* C29: splitEventTags returns at most one frequency and one price, each
\* from the first tag whose trimmed lowercase form is in that vocabulary
\* ("Free" for a free synonym, "Paid" for a paid one); every other tag that
\* is not empty once trimmed is among the categories; no two categories are
\* equal ignoring case, each has the spelling of its first occurrence and
\* they stand in the order of their first occurrences; an empty list gives
\* no categories, no frequency and no price.
C29_TagSplitContract ==
    tgPc = "split" =>
        /\ IF FirstFrequencyTag = 0 THEN tgResult.frequency = NoLabel
           ELSE <<normalizeTag(tgTags[FirstFrequencyTag]), tgResult.frequency>>
                    \in FREQUENCY_TAGS
        /\ IF FirstPriceTag = 0 THEN tgResult.price = NoLabel
           ELSE IF normalizeTag(tgTags[FirstPriceTag]) \in FREE_TAGS
           THEN tgResult.price = <<"F", "r", "e", "e">>
           ELSE tgResult.price = <<"P", "a", "i", "d">>
        /\ \A i \in OtherTagPositions :
              \E k \in 1..Len(tgResult.categories) :
                  toLowerCase(tgResult.categories[k]) = normalizeTag(tgTags[i])
        /\ \A k, m \in 1..Len(tgResult.categories) :
              k # m => toLowerCase(tgResult.categories[k]) # toLowerCase(tgResult.categories[m])
        /\ \A k \in 1..Len(tgResult.categories) : FirstSpelling(tgResult.categories[k]) # {}
        /\ \A k, m \in 1..Len(tgResult.categories) :
              k < m => \A i \in FirstSpelling(tgResult.categories[k]),
                          j \in FirstSpelling(tgResult.categories[m]) : i < j
        /\ tgTags = <<>> =>
              tgResult = [categories |-> <<>>, frequency |-> NoLabel, price |-> NoLabel]

\* A list with a category given twice in different spellings around a price
\* tag, and a second price tag, has been split.
C29_Witness ==
    /\ tgPc = "split"
    /\ tgTags = <<<<"M", "u", "s", "i", "c">>, <<"F", "r", "e", "e">>, <<" ", "m", "u", "s", "i", "c">>, <<"P", "a", "i", "d">>>>
    /\ tgResult = [categories |-> <<<<"M", "u", "s", "i", "c">>, <<"P", "a", "i", "d">>>>, frequency |-> NoLabel,
                   price |-> <<"F", "r", "e", "e">>]

----------------------------------------------------------------------------
(* The order of the lookups of the town resolution *)

\* The calls of a resolution in the order the claim gives them.
StatedCallOrder == <<IP_ENDPOINT, MATCH_ENDPOINT>> \o ZoneListUrls

\* A reverse-geocode answer that yields a non-empty slug.
StatedMatch(reply) == reply.kind = "ok" /\ sanitizeTownSlug(reply.slug) # <<>>

RsLookupOrder ==
    /\ Len(rsCalls) <= Len(StatedCallOrder)
    /\ \A i \in 1..Len(rsCalls) : rsCalls[i] = StatedCallOrder[i]
    /\ Len(rsCalls) >= 2 => rsIp.ok
    /\ rsPc \in {"match", "list"} => rsIp.ok
    /\ (rsIp.ok /\ rsPc \in {"match", "list", "done"}) => Len(rsCalls) >= 2
    /\ rsPc = "done" =>
        /\ rsResult.source = "detected" => (rsIp.ok /\ Len(rsCalls) >= 2)
        /\ (rsResult.source = "fallback" /\ rsIp.ok) => Len(rsCalls) >= 3
        /\ rsResult.source = "fallback" => rsResult = FallbackContext
        /\ (RsArgument = <<>> /\ RsPreference = <<>> /\ ~rsIp.ok) =>
               rsResult.source = "fallback"

RsMatchDecides ==
    \A reply \in MatchReplies :
        RsMatchAnswer(reply) =>
            IF StatedMatch(reply)
            THEN /\ rsPc' = "done"
                 /\ rsResult'.source = "detected"
                 /\ rsResult'.slug = sanitizeTownSlug(reply.slug)
                 /\ rsCalls' = rsCalls
            ELSE /\ rsPc' = "list"
                 /\ rsCalls' = Append(rsCalls, ZoneListUrls[1])

RsNearestDecides ==
    \A reply \in ListReplies :
        (RsListAnswer(reply) /\ rsPc' = "done") =>
            LET nearestZone == IF reply.kind = "ok"
                               THEN findNearestZone(reply.zones, rsIp)
                               ELSE NoZone
            IN IF nearestZone.found
               THEN rsResult' = TownContext(nearestZone.slug, nearestZone.name, "detected")
               ELSE rsResult' = FallbackContext

----------------------------------------------------------------------------
(* The timeouts of the town resolution: each external call as a fetch that
   withTimeout may abort, followed by the reading of the body *)

IP_TIMEOUT_MS == 2200
MATCH_TIMEOUT_MS == 1600
LIST_TIMEOUT_MS == 2200

\* withTimeout: setTimeout(() => controller.abort(), timeoutMs) before the
\* fetch; clearTimeout in the finally of the awaited fetch, that is when the
\* response (its status and headers) is there or the fetch has rejected.
setTimeout(timeoutMs) == [armed |-> TRUE, remaining |-> timeoutMs]
clearTimeout == [armed |-> FALSE, remaining |-> 0]

\* What resolveTownContext does with the outcome of the call it awaited:
\* "value" is an IP location, a matched zone or a list with a nearest zone,
\* "empty" a list without one, "null" a call that gave nothing.
afterCall(stage, urlIndex, outcome) ==
    IF stage = "ip"
    THEN IF outcome = "value"
         THEN [stage |-> "match", urlIndex |-> 0, phase |-> "headers",
               timer |-> setTimeout(MATCH_TIMEOUT_MS), source |-> "none"]
         ELSE [stage |-> "done", urlIndex |-> 0, phase |-> "none",
               timer |-> clearTimeout, source |-> "fallback"]
    ELSE IF stage = "match"
    THEN IF outcome = "value"
         THEN [stage |-> "done", urlIndex |-> 0, phase |-> "none",
               timer |-> clearTimeout, source |-> "detected"]
         ELSE [stage |-> "list", urlIndex |-> 1, phase |-> "headers",
               timer |-> setTimeout(LIST_TIMEOUT_MS), source |-> "none"]
    ELSE IF outcome = "value"
    THEN [stage |-> "done", urlIndex |-> urlIndex, phase |-> "none",
          timer |-> clearTimeout, source |-> "detected"]
    ELSE IF outcome = "empty" \/ urlIndex = Len(ZoneListUrls)
    THEN [stage |-> "done", urlIndex |-> urlIndex, phase |-> "none",
          timer |-> clearTimeout, source |-> "fallback"]
    ELSE [stage |-> "list", urlIndex |-> urlIndex + 1, phase |-> "headers",
          timer |-> setTimeout(LIST_TIMEOUT_MS), source |-> "none"]

\* The call has ended with `outcome`; the caller's continuation clears
\* resolvingTown once resolveTownContext has returned.
TmContinue(outcome) ==
    LET next == afterCall(tmStage, tmUrlIndex, outcome)
    IN /\ tmStage' = next.stage
       /\ tmUrlIndex' = next.urlIndex
       /\ tmPhase' = next.phase
       /\ tmTimer' = next.timer
       /\ tmSource' = next.source
       /\ tmResolvingTown' = (next.stage # "done")

BodyOutcomes == {"value", "empty", "null"}

TmInit ==
    /\ tmStage = "start"
    /\ tmUrlIndex = 0
    /\ tmPhase = "none"
    /\ tmTimer = clearTimeout
    /\ tmAborted = 0
    /\ tmSource = "none"
    /\ tmResolvingTown = TRUE
    /\ EvIdle
    /\ NzIdle
    /\ RsIdle
    /\ AkStart
    /\ TgIdle
    /\ SlIdle
    /\ ZfIdle
    /\ AqIdle
    /\ SsIdle
    /\ IqIdle
    /\ HzIdle
    /\ RtIdle
    /\ FxIdle

\* resolveTownContext with no argument and no preference: fetchIpLocation.
TmStart ==
    /\ tmStage = "start"
    /\ tmStage' = "ip"
    /\ tmPhase' = "headers"
    /\ tmTimer' = setTimeout(IP_TIMEOUT_MS)
    /\ UNCHANGED <<tmUrlIndex, tmAborted, tmSource, tmResolvingTown>>
    /\ UNCHANGED tmOthers

\* Time passes while a timeout is pending.
TmTick ==
    /\ tmTimer.armed
    /\ tmTimer.remaining > 0
    /\ tmTimer' = [tmTimer EXCEPT !.remaining = @ - TickMs]
    /\ UNCHANGED <<tmStage, tmUrlIndex, tmPhase, tmAborted, tmSource, tmResolvingTown>>
    /\ UNCHANGED tmOthers

\* The timeout fires: controller.abort() rejects the pending fetch, and the
\* catch of the call gives null.
TmAbort ==
    /\ tmTimer.armed
    /\ tmTimer.remaining = 0
    /\ tmPhase = "headers"
    /\ tmAborted' = tmAborted + 1
    /\ TmContinue("null")
    /\ UNCHANGED tmOthers

\* The fetch rejects by itself (no connection).
TmFetchFails ==
    /\ tmPhase = "headers"
    /\ TmContinue("null")
    /\ UNCHANGED tmAborted
    /\ UNCHANGED tmOthers

\* The response arrives: the fetch resolves, the finally of withTimeout clears
\* the timeout, and a response that is not ok gives null; otherwise
\* response.json() starts to read the body.
TmHeaders(ok) ==
    /\ tmPhase = "headers"
    /\ IF ok
       THEN /\ tmPhase' = "body"
            /\ tmTimer' = clearTimeout
            /\ UNCHANGED <<tmStage, tmUrlIndex, tmSource, tmResolvingTown>>
       ELSE TmContinue("null")
    /\ UNCHANGED tmAborted
    /\ UNCHANGED tmOthers

\* The body has been read: response.json() settles.
TmBody(outcome) ==
    /\ tmPhase = "body"
    /\ outcome = "empty" => tmStage = "list"
    /\ TmContinue(outcome)
    /\ UNCHANGED tmAborted
    /\ UNCHANGED tmOthers

TmNext ==
    \/ TmStart
    \/ TmTick
    \/ TmAbort
    \/ TmFetchFails
    \/ \E ok \in BOOLEAN : TmHeaders(ok)
    \/ \E outcome \in BodyOutcomes : TmBody(outcome)

\* The program's own steps and the passing of time are fair; the answers of the
\* services are not: a service may never answer.
SpecTimeout ==
    /\ TmInit
    /\ [][TmNext]_vars
    /\ WF_vars(TmStart)
    /\ WF_vars(TmTick)
    /\ WF_vars(TmAbort)

\* C32: resolveTownContext eventually returns, and resolvingTown is cleared,
\* whatever the services do: each call is ended by its timeout when no answer
\* comes, before the response or while the body is read.
C32_ResolutionEventuallyReturns == <>(tmStage = "done" /\ ~tmResolvingTown)

\* The same for services that stall only before the response arrives.
TmHeaderStallsEnd == <>(tmStage = "done" \/ tmPhase = "body")

----------------------------------------------------------------------------
(* The zones findNearestZone may return *)

\* The country code of a zone record as findNearestZone reads it.
NzZoneCountry(zone) ==
    toLowerCase(trim(IF zone.country_code # <<>> THEN zone.country_code
                     ELSE zone.countryCode))

\* A zone that the claim lets findNearestZone return for the IP location.
StatedEligibleZone(zone, ipLocation) ==
    /\ ~zone.isNull
    /\ ~zone.hidden
    /\ zone.active
    /\ sanitizeTownSlug(zone.slug) # <<>>
    /\ trim(zone.name) # <<>>
    /\ StatedNumeric(zone.lat)
    /\ StatedNumeric(zone.lng)
    /\ ipLocation.countryCode # <<>> =>
          \/ NzZoneCountry(zone) = <<>>
          \/ NzZoneCountry(zone) = ipLocation.countryCode

NzStatedEligible == {i \in 1..Len(nzZones) : StatedEligibleZone(nzZones[i], nzIp)}

\* C33: the zone findNearestZone returns is visible and active and has a
\* non-empty sanitized slug, a non-empty name and numeric coordinates, and
\* its country code is unset or that of the IP location when the IP location
\* has one; when no zone is eligible the result is null.
C33_OnlyEligibleZoneReturned ==
    (nzPc = "done" /\ ~nzThrew) =>
        /\ nzResult.found =>
              \E i \in NzStatedEligible :
                  nzResult = Zone(sanitizeTownSlug(nzZones[i].slug), trim(nzZones[i].name))
        /\ NzStatedEligible = {} => nzResult = NoZone

----------------------------------------------------------------------------
(* The selection effects of the ask command, event by event: the debounced
   text and the response change, the user picks, and the effects run *)

EffectTexts == SearchTexts \cup {<<"k", "i", "d", "s", " ", "t", "o", "n", "i", "g", "h", "t">>}

\* The effects as they stand after a render: what each reads is in the state.
FxTimeWindowEffectPending ==
    /\ fxManualTimeWindowQuery # fxNormalizedQuery
    /\ fxInferredWindow # "null"
    /\ fxInferredWindow # fxSelectedTimeWindow
FxCategoryEffectPending ==
    /\ fxManualCategoryQuery # fxNormalizedQuery
    /\ fxInferredCategory # "null"
    /\ fxInferredCategory # fxSelectedCategory
FxCategoryResetPending == fxSelectedCategory \notin fxCategoryOptions
FxEffectPending ==
    FxTimeWindowEffectPending \/ FxCategoryEffectPending \/ FxCategoryResetPending

FxInit ==
    /\ fxDebounced = <<>>
    /\ fxNormalizedQuery = normalizeWindowQuery(<<>>)
    /\ fxInferredWindow = inferTimeWindowFromQuery(<<>>)
    /\ fxInferredCategory = inferCategoryFromQuery(<<>>)
    /\ fxSelectedTimeWindow = DEFAULT_TIME_WINDOW
    /\ fxManualTimeWindowQuery = <<>>
    /\ fxSelectedCategory = CATEGORY_ALL
    /\ fxManualCategoryQuery = <<>>
    /\ fxCategoryOptions = {CATEGORY_ALL}
    /\ EvIdle
    /\ NzIdle
    /\ RsIdle
    /\ AkStart
    /\ TgIdle
    /\ SlIdle
    /\ ZfIdle
    /\ AqIdle
    /\ SsIdle
    /\ IqIdle
    /\ HzIdle
    /\ RtIdle
    /\ TmIdle

\* The timeout of useDebouncedValue delivers a new text.
FxDebounced(text) ==
    /\ ~FxEffectPending
    /\ text # fxDebounced
    /\ fxDebounced' = text
    /\ fxNormalizedQuery' = normalizeWindowQuery(text)
    /\ fxInferredWindow' = inferTimeWindowFromQuery(text)
    /\ fxInferredCategory' = inferCategoryFromQuery(text)
    /\ UNCHANGED <<fxSelectedTimeWindow, fxManualTimeWindowQuery, fxSelectedCategory,
                   fxManualCategoryQuery, fxCategoryOptions>>
    /\ UNCHANGED fxOthers

FxApplyTimeWindow(timeWindow) ==
    /\ ~FxEffectPending
    /\ fxManualTimeWindowQuery' = fxNormalizedQuery
    /\ fxSelectedTimeWindow' = timeWindow
    /\ UNCHANGED <<fxDebounced, fxNormalizedQuery, fxInferredWindow, fxInferredCategory,
                   fxSelectedCategory, fxManualCategoryQuery, fxCategoryOptions>>
    /\ UNCHANGED fxOthers

\* The dropdown offers the category options.
FxApplyCategory(category) ==
    /\ ~FxEffectPending
    /\ category \in fxCategoryOptions
    /\ fxManualCategoryQuery' = fxNormalizedQuery
    /\ fxSelectedCategory' = category
    /\ UNCHANGED <<fxDebounced, fxNormalizedQuery, fxInferredWindow, fxInferredCategory,
                   fxSelectedTimeWindow, fxManualTimeWindowQuery, fxCategoryOptions>>
    /\ UNCHANGED fxOthers

\* The response on display changes, and with it the category options.
FxResponseShown(options) ==
    /\ ~FxEffectPending
    /\ options # fxCategoryOptions
    /\ fxCategoryOptions' = options
    /\ UNCHANGED <<fxDebounced, fxNormalizedQuery, fxInferredWindow, fxInferredCategory,
                   fxSelectedTimeWindow, fxManualTimeWindowQuery, fxSelectedCategory,
                   fxManualCategoryQuery>>
    /\ UNCHANGED fxOthers

\* The effect that infers the time window.
FxInferTimeWindow ==
    /\ FxTimeWindowEffectPending
    /\ fxSelectedTimeWindow' = fxInferredWindow
    /\ UNCHANGED <<fxDebounced, fxNormalizedQuery, fxInferredWindow, fxInferredCategory,
                   fxManualTimeWindowQuery, fxSelectedCategory, fxManualCategoryQuery,
                   fxCategoryOptions>>
    /\ UNCHANGED fxOthers

\* The effect that infers the category.
FxInferCategory ==
    /\ FxCategoryEffectPending
    /\ fxSelectedCategory' = fxInferredCategory
    /\ UNCHANGED <<fxDebounced, fxNormalizedQuery, fxInferredWindow, fxInferredCategory,
                   fxSelectedTimeWindow, fxManualTimeWindowQuery, fxManualCategoryQuery,
                   fxCategoryOptions>>
    /\ UNCHANGED fxOthers

\* The effect that falls back to "All" when the selected category is not
\* among the options.
FxResetCategory ==
    /\ FxCategoryResetPending
    /\ fxSelectedCategory' = CATEGORY_ALL
    /\ UNCHANGED <<fxDebounced, fxNormalizedQuery, fxInferredWindow, fxInferredCategory,
                   fxSelectedTimeWindow, fxManualTimeWindowQuery, fxManualCategoryQuery,
                   fxCategoryOptions>>
    /\ UNCHANGED fxOthers

FxNext ==
    \/ \E text \in EffectTexts : FxDebounced(text)
    \/ \E timeWindow \in PickableWindows : FxApplyTimeWindow(timeWindow)
    \/ \E category \in PickableCategories \cup {CATEGORY_ALL} : FxApplyCategory(category)
    \/ \E options \in CategoryOptionSets : FxResponseShown(options)
    \/ FxInferTimeWindow
    \/ FxInferCategory
    \/ FxResetCategory

\* React runs every effect whose dependencies changed after each render, so an
\* effect that would change a selection is not left waiting for ever; the
\* user and the backend may stay silent.
SpecEffects ==
    /\ FxInit
    /\ [][FxNext]_vars
    /\ WF_vars(FxInferTimeWindow)
    /\ WF_vars(FxInferCategory)
    /\ WF_vars(FxResetCategory)

\* C34: with the debounced text and the displayed response fixed (no other
\* step is taken while an effect is due), the selection effects come to rest
\* after finitely many runs: selectedCategory and selectedTimeWindow stop
\* changing.
C34_SelectionEffectsSettle == FxEffectPending ~> ~FxEffectPending

\* The same for texts whose inferred category is among the category options.
FxOfferedCategoryEffectsSettle ==
    (FxEffectPending /\ fxInferredCategory \in fxCategoryOptions \cup {"null"})
        ~> ~FxEffectPending

----------------------------------------------------------------------------
(* The loading flag of the ask command *)

\* The requests whose effect run has not been cleaned up and whose promise has
\* not settled.
AkOutstanding ==
    {i \in 1..Len(akRequests) : akRequests[i].status = "pending" /\ ~akRequests[i].cancelled}

\* C35: loading is true exactly while the most recently issued query, not
\* superseded by a later effect run, is in flight: no older request counts,
\* and loading is false once that query has settled or the town is empty.
C35_LoadingIffLatestInFlight ==
    /\ akLoading <=> AkOutstanding # {}
    /\ AkOutstanding \subseteq {Len(akRequests)}
    /\ akTown = "" => ~akLoading

\* Out-of-order completions: the first query is still in flight, the second
\* has failed, and loading stands for the third.
C35_Witness ==
    /\ Len(akRequests) >= 3
    /\ akRequests[1].status = "pending"
    /\ akRequests[2].status = "rejected"
    /\ AkOutstanding = {Len(akRequests)}
    /\ akLoading

----------------------------------------------------------------------------
(* Time intent and the inferred time window *)

\* C36: a text has explicit time intent exactly when a time window is
\* inferred from it, so among the texts that are not blank the request
\* carries the hint of the selected window exactly for those from which no
\* window is inferred.
C36_TimeIntentIffWindowInferred ==
    /\ iqInferred # "none" => (hasExplicitTimeIntent(iqText) <=> iqInferred # "null")
    /\ (iqInferred # "none" /\ iqSent.built /\ trim(iqText) # <<>>) =>
          iqSent.query =
              IF iqInferred = "null"
              THEN SingleSpaced(trim(iqText)) \o <<" ">> \o windowHintForApi(iqWindow)
              ELSE SingleSpaced(trim(iqText))

\* " Tonight? " gives the window today and is sent alone although another
\* window is selected.
C36_Witness ==
    /\ iqText = <<" ", "T", "o", "n", "i", "g", "h", "t", "?", " ">>
    /\ iqWindow = "this_week"
    /\ iqInferred = "today"
    /\ iqSent = [built |-> TRUE, query |-> <<"T", "o", "n", "i", "g", "h", "t", "?">>]

----------------------------------------------------------------------------
(* The time windows compared with each other *)

\* a is b with some of its entries left out.
RECURSIVE IsSubsequence(_, _)
IsSubsequence(a, b) ==
    IF a = <<>> THEN TRUE
    ELSE IF b = <<>> THEN FALSE
    ELSE IF Head(a) = Head(b) THEN IsSubsequence(Tail(a), Tail(b))
    ELSE IsSubsequence(a, Tail(b))

\* The window that the claim puts right above each window.
StatedWiderWindow ==
    [timeWindow \in TimeWindows \ {"all_upcoming"} |->
        IF timeWindow = "today" THEN "today_tomorrow"
        ELSE IF timeWindow = "today_tomorrow" THEN "next_3_days"
        ELSE IF timeWindow \in {"next_3_days", "this_week"} THEN "next_7_days"
        ELSE "all_upcoming"]

\* The result of the wider window for the same events, timezone and instant.
EvWiderResult ==
    filterEventsByTimeWindow(evEvents, evTz, StatedWiderWindow[evWindow], evNow,
                             IF evWindow = "now" THEN evNow ELSE evNowUpcoming)

\* C37: for the same events, timezone and instant the result of each window
\* is contained, in order, in the result of the window above it (now and
\* next_7_days in all_upcoming, today in today_tomorrow in next_3_days in
\* next_7_days, this_week in next_7_days), and every result is the input with
\* some events left out, none added or repeated.
C37_WindowsAreNested ==
    (evPc = "filtered" /\ ~evThrew) =>
        /\ IsSubsequence(evResult, evEvents)
        /\ evWindow # "all_upcoming" => IsSubsequence(evResult, EvWiderResult)

\* today_tomorrow keeps one of two events and next_3_days keeps both.
C37_Witness ==
    /\ evPc = "filtered"
    /\ ~evThrew
    /\ evWindow = "today_tomorrow"
    /\ Len(evResult) = 1
    /\ Len(EvWiderResult) = 2
    /\ evResult[1] = EvWiderResult[1]

----------------------------------------------------------------------------
(* The sections of groupEventsByDay as a partition *)

\* How often the event stands in the list.
CountIn(events, event) == Cardinality({i \in 1..Len(events) : events[i] = event})

RECURSIVE SumOver(_, _)
SumOver(sections, event) ==
    IF sections = <<>> THEN 0
    ELSE CountIn(Head(sections).events, event) + SumOver(Tail(sections), event)

EvSectionsPartition ==
    (evPc = "grouped" /\ ~evThrew) =>
        /\ \A i, j \in 1..Len(evSections) : i # j => evSections[i].id # evSections[j].id
        /\ \A i \in 1..Len(evSections) :
            /\ evSections[i].events # <<>>
            /\ \A k \in 1..Len(evSections[i].events) :
                LET event == evSections[i].events[k]
                IN /\ \E n \in 1..Len(evEvents) : evEvents[n] = event
                   /\ StartParses(event)
                   /\ evSections[i].id = formatDateKey(DateParse(event.startTime), evTz)
        /\ \A n \in 1..Len(evEvents) :
            SumOver(evSections, evEvents[n]) =
                IF StartParses(evEvents[n]) THEN CountIn(evEvents, evEvents[n]) ELSE 0

\* C38: the sections of groupEventsByDay hold every event whose start parses
\* exactly as often as the input does, each in the section whose id is the
\* date key of its start in the timezone; the ids differ from each other, no
\* section is empty, nothing is added, and the input list stays as it was.
C38_SectionsPartitionParseableEvents ==
    /\ []EvSectionsPartition
    /\ [][evPc' = "grouped" => evEvents' = evEvents]_vars

\* An event late on the Sunday of the change to summer time, after an event
\* with no start in the input, is alone in the section of the London Monday.
C38_Witness ==
    /\ evPc = "grouped"
    /\ ~evThrew
    /\ evTz = "Europe/London"
    /\ Len(evEvents) = 2
    /\ ~StartParses(evEvents[1])
    /\ StartParses(evEvents[2])
    /\ Len(evSections) = 1
    /\ evSections[1].events = <<evEvents[2]>>
    /\ evSections[1].id # formatDateKey(DateParse(evEvents[2].startTime), "UTC")

----------------------------------------------------------------------------
(* sanitizeTownSlug applied to its own result *)

\* C39: sanitizeTownSlug gives back unchanged what it has returned: the slug
\* askTownspot sends is the slug the resolver or the zone directory
\* sanitized.
C39_SanitizeTownSlugIsIdempotent ==
    [][(slPc = "done" /\ slPc' = "sent") => slOutput' = slOutput]_vars

\* A slug that differs from its input and ends with a hyphen has been sent as
\* it was.
C39_Witness ==
    /\ slPc = "sent"
    /\ slInput.chars = <<"K", "-", " ", "!">>
    /\ slOutput = <<"k", "-">>

====
